---- MODULE Spec2Model ----
(***************************************************************************)
(* A model of the file classifier: the copy engine                        *)
(* (src/module/file_manager.py), the plugin registry, template parser,    *)
(* renderer and orchestrator (src/module/allocator.py) and the wildcard   *)
(* constraint matcher                                                     *)
(* (src/project_components/pyside6_plugins/manual_grouping.py).           *)
(*                                                                         *)
(* Strings of the program are sequences of one-character strings.         *)
(* Each subsystem has its own specification over its own variables; the   *)
(* variables of the other subsystems stay at their initial values.        *)
(***************************************************************************)
EXTENDS Integers, Sequences, FiniteSets, TLC

VARIABLES
    \* ---- copy engine (current_copying_instance) ----
    hash_check_enable,  \* the configured algorithm name (Config "hash_check_enable")
    hash_func,          \* self.__hash_func__
    source,             \* the source file on disk: [exists, data]
    chunk_size,         \* __fastcopy's chunk_size
    max_workers,        \* __fastcopy's max_workers
    destinations,       \* the tuple passed to copy_initiator
    disk,               \* per destination: the target file and its .partN files
    pc,                 \* position of the thread running copy_initiator
    di,                 \* index of the destination being processed (1-based)
    success,            \* copy_initiator's local `success`
    source_hash,        \* copy_initiator's local `source_hash`
    num_chunks,         \* __fastcopy's num_chunks
    results,            \* __fastcopy's results list (chunk id -> bool)
    wstate,             \* each chunk task: "pending", "running" or "done"
    merge_i,            \* loop index of the merge loop
    outcome,            \* per destination index: how its processing ended
    attempted,          \* destinations whose processing started, in order
    ret,                \* what copy_initiator returned: "none" (not yet), "true", "false"
    faults,             \* number of injected I/O faults so far
    \* ---- template parser and renderer (Allocator) ----
    t_template,         \* the template string handed to the parser / renderer
    t_variables,        \* the variable environment handed to the renderer
    t_dest_dir,         \* self.__dest_dir, the configured output directory
    parsed,             \* [done, value]: what parse_template_variables returned (a set)
    rendered,           \* [done, value]: what _resolve_template_variables returned
    \* ---- wildcard matcher (Strategy) ----
    m_pattern,          \* Strategy.pattern
    m_range_filter,     \* Strategy.range_filter, the constraint list as written
    strategy,           \* "none", "constructed", "rejected" or "raised_at_match"
    m_constraints,      \* the constraints parsed from Strategy.range_filter
    m_filename,         \* the filename handed to matches()
    matched,            \* [done, value]: what matches() returned
    \* ---- grouping plugin (manual_grouping) ----
    g_groups,           \* the configured strategy groups, in configuration order
    g_filepath,         \* the path handed to manual_grouping()
    grouped,            \* [done, impl, value]: what manual_grouping() returned
    \* ---- plugin registry and orchestrator (Allocator) ----
    loaded_plugins,     \* keys of self.loaded_plugins
    init_functions,     \* keys of self.init_functions
    execute_functions,  \* keys of self.execute_functions
    delete_functions,   \* keys of self.delete_functions
    reload_functions,   \* keys of self.reload_functions
    init_calls,         \* per plugin: calls of its init hook since its load began
    delete_calls,       \* per plugin: calls of its delete hook since its load began
    plugin_files,       \* per plugin: the version of its file in the plugins directory
    file_defect,        \* per plugin: what is wrong with its file as it is now
    sys_modules,        \* per plugin: the module object sys.modules holds, if any
    hook_module,        \* per plugin: the version of the module its registered hooks belong to
    available_variables, \* keys of self.available_variables, the catalog of discovery
    active_variables,   \* self.active_variables
    current_template,   \* self.current_template
    last                \* the last call of the API and how it ended

copyVars == <<hash_check_enable, hash_func, source, chunk_size, max_workers,
              destinations, disk, pc, di, success, source_hash, num_chunks,
              results, wstate, merge_i, outcome, attempted, ret, faults>>

tplVars == <<t_template, t_variables, t_dest_dir, parsed, rendered>>

groupingVars == <<g_groups, g_filepath, grouped>>

matchVars == <<m_pattern, m_range_filter, strategy, m_constraints, m_filename, matched,
               groupingVars>>

regVars == <<loaded_plugins, init_functions, execute_functions, delete_functions,
             reload_functions, init_calls, delete_calls, plugin_files, file_defect,
             sys_modules, hook_module, available_variables, active_variables,
             current_template, last>>

\* The variables the copy engine never touches.
nonCopyVars == <<tplVars, matchVars, regVars>>

\* The variables the template parser and renderer never touch.
nonTplVars == <<copyVars, matchVars, regVars>>

\* The variables the wildcard matcher never touches.
nonMatchVars == <<copyVars, tplVars, regVars>>

vars == <<copyVars, tplVars, matchVars, regVars>>

\* A subsystem that takes no part in a specification stays in this state.
TemplateIdle ==
    /\ t_template = <<>>
    /\ t_variables = <<>>
    /\ t_dest_dir = <<>>
    /\ parsed = [done |-> FALSE, value |-> {}]
    /\ rendered = [done |-> FALSE, value |-> <<>>]

NotGrouped == [done |-> FALSE, impl |-> "none", value |-> <<>>]

GroupingIdle ==
    /\ g_groups = <<>>
    /\ g_filepath = <<>>
    /\ grouped = NotGrouped

MatcherIdle ==
    /\ m_pattern = <<>>
    /\ m_range_filter = <<>>
    /\ strategy = "none"
    /\ m_constraints = <<>>
    /\ m_filename = <<>>
    /\ matched = [done |-> FALSE, value |-> FALSE]

MatchIdle ==
    /\ GroupingIdle
    /\ m_pattern = <<>>
    /\ m_range_filter = <<>>
    /\ strategy = "none"
    /\ m_constraints = <<>>
    /\ m_filename = <<>>
    /\ matched = [done |-> FALSE, value |-> FALSE]

\* No call of the API yet.
NoCall == [op |-> "none", raised |-> FALSE, ok |-> FALSE, path |-> <<>>, env |-> <<>>,
           beh |-> <<>>, file_exists |-> FALSE, name |-> <<>>, tpl |-> <<>>,
           files |-> <<>>, results |-> <<>>, was_loaded |-> FALSE, log |-> <<>>,
           same |-> FALSE, init_raised |-> {}, import_failed |-> {}, delete_raised |-> {},
           before |-> {}, old_template |-> <<>>, old_active |-> {}]

\* No Allocator constructed.
RegistryIdle ==
    /\ loaded_plugins = {}
    /\ init_functions = {}
    /\ execute_functions = {}
    /\ delete_functions = {}
    /\ reload_functions = {}
    /\ init_calls = <<>>
    /\ delete_calls = <<>>
    /\ plugin_files = <<>>
    /\ file_defect = <<>>
    /\ sys_modules = <<>>
    /\ hook_module = <<>>
    /\ available_variables = {}
    /\ active_variables = {}
    /\ current_template = <<>>
    /\ last = NoCall

\* ------------------------------------------------------------------ bounds
MaxSize == 4        \* largest source size in bytes
MaxChunk == 2       \* largest chunk_size
MaxWorkers == 2     \* largest max_workers
MaxDest == 2        \* largest number of destinations
MaxFaults == 2      \* injected I/O faults per copy_initiator call
MaxPieces == 3      \* longest template, in pieces
MaxPattern == 3     \* longest wildcard pattern, in characters
MaxName == 3        \* longest filename, in characters
MaxCalls == 2       \* most calls of one delete hook that are counted
MaxBatch == 2       \* most files of one batch_execute call
MaxVersion == 1     \* most edits of one plugin file
MaxEntries == 2     \* most entries of one constraint list
MaxGroups == 2      \* most configured strategy groups

\* ------------------------------------------------------------------ helpers
Min(a, b) == IF a < b THEN a ELSE b

NoFile == [exists |-> FALSE, data |-> <<>>]
File(d) == [exists |-> TRUE, data |-> d]

\* The algorithms hashlib offers on the host (hashlib.algorithms_available).
AlgorithmsAvailable == {"md5", "sha256"}
ConfiguredAlgorithms == {"", "sha256", "nosuch"}

\* hashlib digest of a file's content: a collision-free digest, tagged with
\* the algorithm.
HexDigest(alg, data) == <<alg, data>>

\* The bytes of a source of size s: byte i has value i, so that every
\* reordering, truncation or change of the data is visible.
SourceData(s) == [i \in 1..s |-> i]

\* What a silently failing write can leave instead of `data`.
Corruptions(data) ==
    IF data = <<>> THEN {}
    ELSE {SubSeq(data, 1, Len(data) - 1), [data EXCEPT ![1] = 0]}

\* What a write that raises midway can leave on disk.
PartialWrites(data) == {<<>>} \cup (IF data = <<>> THEN {} ELSE {SubSeq(data, 1, Len(data) - 1)})

PartIds == 0..(MaxWorkers - 1)
NoParts == [i \in PartIds |-> NoFile]
EmptyDest == [target |-> NoFile, parts |-> NoParts]

\* __init__: the algorithm used for hashing.
InitHashFunc(cfg) ==
    IF cfg # "" /\ cfg \in AlgorithmsAvailable THEN cfg ELSE "md5"

\* get_hash: "" when no algorithm is set, else the digest of the file's content.
get_hash(file) ==
    IF hash_func = "" THEN <<>> ELSE HexDigest(hash_func, file.data)

CurDest == destinations[di]

\* ------------------------------------------------------- copy engine: steps
FaultOK == faults < MaxFaults

\* __fastcopy, `except Exception`: remove every .partN (N in 0..9) and the target.
fastcopy_except(dest) == [target |-> NoFile, parts |-> NoParts]

\* __fastcopy, `if not all(results)`: remove the .partN files of this copy.
fastcopy_remove_parts(dest, n) ==
    [dest EXCEPT !.parts = [i \in PartIds |-> IF i < n THEN NoFile ELSE dest.parts[i]]]

\* A variant of the loop body's bookkeeping in which the flag is assigned the
\* current destination's result instead of only being cleared on failure.
EndDestination_last(o) ==
    /\ outcome' = [outcome EXCEPT ![di] = o]
    /\ success' = (o = "ok")
    /\ pc' = "next"

\* copy_initiator's loop body ends for the current destination with outcome o.
EndDestination(o) ==
    /\ outcome' = [outcome EXCEPT ![di] = o]
    /\ success' = IF o = "ok" THEN success ELSE FALSE
    /\ pc' = "next"

\* A copy_initiator without its `try`: the exception leaves the function.
initiator_propagates ==
    /\ outcome' = [outcome EXCEPT ![di] = "error"]
    /\ success' = FALSE
    /\ pc' = "raised"

\* copy_initiator, `except Exception as e`: the failure is recorded and the
\* loop goes on with the next destination.
initiator_except == EndDestination("error")

\* __fastcopy returned False: `success = False`.
fastcopy_returned_false == EndDestination("copy_failed")

\* copy_initiator: entry, `if not destinations: return False`.
copy_initiator_call ==
    /\ pc = "call"
    /\ IF destinations = <<>>
       THEN /\ pc' = "done"
            /\ ret' = "false"
            /\ UNCHANGED <<di, success, attempted>>
       ELSE /\ pc' = "hash_src"
            /\ di' = 1
            /\ success' = TRUE
            /\ attempted' = <<destinations[1]>>
            /\ UNCHANGED ret
    /\ UNCHANGED <<nonCopyVars, hash_check_enable, hash_func, source, chunk_size, max_workers,
                   destinations, disk, source_hash, num_chunks, results, wstate,
                   merge_i, outcome, faults>>

\* copy_initiator: `source_hash = self.get_hash(self.__file_path__)`.
\* Opening a missing source raises; reading may fail.
copy_initiator_source_hash ==
    /\ pc = "hash_src"
    /\ \/ /\ hash_func = "" \/ source.exists
          /\ source_hash' = get_hash(source)
          /\ pc' = "fastcopy"
          /\ UNCHANGED <<outcome, success, faults>>
       \/ /\ hash_func # ""
          /\ \/ ~source.exists /\ UNCHANGED faults
             \/ source.exists /\ FaultOK /\ faults' = faults + 1
          /\ initiator_except
          /\ UNCHANGED source_hash
    /\ UNCHANGED <<nonCopyVars, hash_check_enable, hash_func, source, chunk_size, max_workers,
                   destinations, disk, di, num_chunks, results, wstate, merge_i,
                   attempted, ret>>

\* __fastcopy: size test and the single-threaded copy (shutil.copy2), or the
\* set-up of the chunk tasks.
fastcopy_begin ==
    /\ pc = "fastcopy"
    /\ LET file_size == Len(source.data) IN
       \/ \* os.path.getsize raises on a missing source
          /\ ~source.exists
          /\ disk' = [disk EXCEPT ![CurDest] = fastcopy_except(@)]
          /\ fastcopy_returned_false
          /\ UNCHANGED <<num_chunks, results, wstate, faults>>
       \/ \* small file: copy2 succeeds
          /\ source.exists /\ file_size < chunk_size * 2
          /\ disk' = [disk EXCEPT ![CurDest].target = File(source.data)]
          /\ pc' = "hash_tgt"
          /\ UNCHANGED <<num_chunks, results, wstate, faults, outcome, success>>
       \/ \* small file: copy2 writes wrong data without raising
          /\ source.exists /\ file_size < chunk_size * 2 /\ FaultOK
          /\ \E c \in Corruptions(source.data) :
                disk' = [disk EXCEPT ![CurDest].target = File(c)]
          /\ faults' = faults + 1
          /\ pc' = "hash_tgt"
          /\ UNCHANGED <<num_chunks, results, wstate, outcome, success>>
       \/ \* small file: copy2 raises, the except clause cleans up
          /\ source.exists /\ file_size < chunk_size * 2 /\ FaultOK
          /\ disk' = [disk EXCEPT ![CurDest] = fastcopy_except(@)]
          /\ faults' = faults + 1
          /\ fastcopy_returned_false
          /\ UNCHANGED <<num_chunks, results, wstate>>
       \/ \* large file: the chunk tasks are submitted to the pool
          /\ source.exists /\ ~(file_size < chunk_size * 2)
          /\ LET n == Min(max_workers, (file_size + chunk_size - 1) \div chunk_size) IN
             /\ num_chunks' = n
             /\ results' = [i \in 0..(n - 1) |-> FALSE]
             /\ wstate' = [i \in 0..(n - 1) |-> "pending"]
          /\ pc' = "workers"
          /\ UNCHANGED <<disk, faults, outcome, success>>
    /\ UNCHANGED <<nonCopyVars, hash_check_enable, hash_func, source, chunk_size, max_workers,
                   destinations, di, source_hash, merge_i, attempted, ret>>

\* An end position that gives every chunk base_chunk_size bytes.
end_pos_even(i) == (i + 1) * (Len(source.data) \div num_chunks)

\* The byte range of chunk i.
base_chunk_size == Len(source.data) \div num_chunks
start_pos(i) == i * base_chunk_size
end_pos(i) == IF i = num_chunks - 1 THEN Len(source.data) ELSE (i + 1) * base_chunk_size
ChunkData(i) == SubSeq(source.data, start_pos(i) + 1, end_pos(i))

Running == {i \in DOMAIN wstate : wstate[i] = "running"}

\* A pool thread takes chunk task i (at most max_workers threads).
copy_chunk_start(i) ==
    /\ pc = "workers"
    /\ i \in DOMAIN wstate
    /\ wstate[i] = "pending"
    /\ Cardinality(Running) < max_workers
    /\ wstate' = [wstate EXCEPT ![i] = "running"]
    /\ UNCHANGED <<nonCopyVars, hash_check_enable, hash_func, source, chunk_size, max_workers,
                   destinations, disk, pc, di, success, source_hash, num_chunks,
                   results, merge_i, outcome, attempted, ret, faults>>

\* copy_chunk(start_pos, end_pos, chunk_id) runs to its end.
copy_chunk_finish(i) ==
    /\ pc = "workers"
    /\ i \in DOMAIN wstate
    /\ wstate[i] = "running"
    /\ wstate' = [wstate EXCEPT ![i] = "done"]
    /\ \/ \* read and write succeed
          /\ disk' = [disk EXCEPT ![CurDest].parts[i] = File(ChunkData(i))]
          /\ results' = [results EXCEPT ![i] = TRUE]
          /\ UNCHANGED faults
       \/ \* the write stores wrong data without raising
          /\ FaultOK
          /\ \E c \in Corruptions(ChunkData(i)) :
                disk' = [disk EXCEPT ![CurDest].parts[i] = File(c)]
          /\ results' = [results EXCEPT ![i] = TRUE]
          /\ faults' = faults + 1
       \/ \* the read fails, or opening the part file fails
          /\ FaultOK
          /\ results' = [results EXCEPT ![i] = FALSE]
          /\ faults' = faults + 1
          /\ UNCHANGED disk
       \/ \* the write fails after the part file was created
          /\ FaultOK
          /\ \E c \in PartialWrites(ChunkData(i)) :
                disk' = [disk EXCEPT ![CurDest].parts[i] = File(c)]
          /\ results' = [results EXCEPT ![i] = FALSE]
          /\ faults' = faults + 1
    /\ UNCHANGED <<nonCopyVars, hash_check_enable, hash_func, source, chunk_size, max_workers,
                   destinations, pc, di, success, source_hash, num_chunks,
                   merge_i, outcome, attempted, ret>>

\* The pool has shut down and every future's result() has returned.
AllChunksDone == \A i \in DOMAIN wstate : wstate[i] = "done"
AllResults == \A i \in DOMAIN results : results[i]

\* __fastcopy after the pool has shut down: `if not all(results)`, else the
\* target is opened for writing.
fastcopy_join ==
    /\ pc = "workers"
    /\ AllChunksDone
    /\ \/ /\ ~AllResults
          /\ disk' = [disk EXCEPT ![CurDest] = fastcopy_remove_parts(@, num_chunks)]
          /\ fastcopy_returned_false
          /\ UNCHANGED <<merge_i, faults>>
       \/ /\ AllResults
          /\ disk' = [disk EXCEPT ![CurDest].target = File(<<>>)]
          /\ merge_i' = 0
          /\ pc' = "merge"
          /\ UNCHANGED <<outcome, success, faults>>
       \/ \* open(target_path, 'wb') raises
          /\ AllResults /\ FaultOK
          /\ disk' = [disk EXCEPT ![CurDest] = fastcopy_except(@)]
          /\ faults' = faults + 1
          /\ fastcopy_returned_false
          /\ UNCHANGED merge_i
    /\ UNCHANGED <<nonCopyVars, hash_check_enable, hash_func, source, chunk_size, max_workers,
                   destinations, di, source_hash, num_chunks, results, wstate,
                   attempted, ret>>

\* Another process removes a part file before the merge reads it.
part_file_vanishes ==
    /\ pc = "merge"
    /\ FaultOK
    /\ \E j \in merge_i..(num_chunks - 1) :
          /\ disk[CurDest].parts[j].exists
          /\ disk' = [disk EXCEPT ![CurDest].parts[j] = NoFile]
    /\ faults' = faults + 1
    /\ UNCHANGED <<nonCopyVars, hash_check_enable, hash_func, source, chunk_size, max_workers,
                   destinations, pc, di, success, source_hash, num_chunks,
                   results, wstate, merge_i, outcome, attempted, ret>>

\* The merge loop's step for part merge_i: when the part is missing the
\* function returns False from inside the loop.
fastcopy_merge_missing(dest) == dest

\* A merge loop that takes the part files in descending index.
part_file_descending(i) == num_chunks - 1 - i

\* The part file iteration i of the merge loop reads: f"{target_path}.part{i}".
part_file(i) == i

\* __fastcopy: one iteration of the merge loop.
fastcopy_merge ==
    /\ pc = "merge"
    /\ merge_i < num_chunks
    /\ LET part == disk[CurDest].parts[part_file(merge_i)] IN
       \/ /\ ~part.exists
          /\ disk' = [disk EXCEPT ![CurDest] = fastcopy_merge_missing(@)]
          /\ fastcopy_returned_false
          /\ UNCHANGED <<merge_i, faults>>
       \/ /\ part.exists
          /\ disk' = [disk EXCEPT ![CurDest].target = File(@.data \o part.data),
                                  ![CurDest].parts[part_file(merge_i)] = NoFile]
          /\ merge_i' = merge_i + 1
          /\ UNCHANGED <<pc, outcome, success, faults>>
       \/ \* reading the part or writing the target raises
          /\ part.exists /\ FaultOK
          /\ disk' = [disk EXCEPT ![CurDest] = fastcopy_except(@)]
          /\ faults' = faults + 1
          /\ fastcopy_returned_false
          /\ UNCHANGED merge_i
    /\ UNCHANGED <<nonCopyVars, hash_check_enable, hash_func, source, chunk_size, max_workers,
                   destinations, di, source_hash, num_chunks, results, wstate,
                   attempted, ret>>

\* __fastcopy after the merge: shutil.copystat, then the size check.
fastcopy_verify ==
    /\ pc = "merge"
    /\ merge_i = num_chunks
    /\ \/ \* copystat or getsize raises
          /\ FaultOK
          /\ disk' = [disk EXCEPT ![CurDest] = fastcopy_except(@)]
          /\ faults' = faults + 1
          /\ fastcopy_returned_false
       \/ /\ Len(disk[CurDest].target.data) # Len(source.data)
          /\ disk' = [disk EXCEPT ![CurDest].target = NoFile]
          /\ fastcopy_returned_false
          /\ UNCHANGED faults
       \/ /\ Len(disk[CurDest].target.data) = Len(source.data)
          /\ pc' = "hash_tgt"
          /\ UNCHANGED <<disk, outcome, success, faults>>
    /\ UNCHANGED <<nonCopyVars, hash_check_enable, hash_func, source, chunk_size, max_workers,
                   destinations, di, source_hash, num_chunks, results, wstate,
                   merge_i, attempted, ret>>

\* A variant of the comparison that never reports a difference.
HashesDiffer_never(s, t) == FALSE

\* copy_initiator's comparison `source_hash != target_hash`.
HashesDiffer(s, t) == s # t

\* copy_initiator after __fastcopy returned True: the target's hash is
\* computed and compared.
copy_initiator_verify ==
    /\ pc = "hash_tgt"
    /\ \/ \* get_hash(destination) raises
          /\ hash_func # "" /\ FaultOK
          /\ faults' = faults + 1
          /\ initiator_except
          /\ UNCHANGED disk
       \/ /\ HashesDiffer(source_hash, get_hash(disk[CurDest].target))
          /\ disk' = [disk EXCEPT ![CurDest].target = NoFile]
          /\ EndDestination("hash_mismatch")
          /\ UNCHANGED faults
       \/ /\ ~HashesDiffer(source_hash, get_hash(disk[CurDest].target))
          /\ EndDestination("ok")
          /\ UNCHANGED <<disk, faults>>
    /\ UNCHANGED <<nonCopyVars, hash_check_enable, hash_func, source, chunk_size, max_workers,
                   destinations, di, source_hash, num_chunks, results, wstate,
                   merge_i, attempted, ret>>

\* copy_initiator: the `for` loop moves to the next destination, or the
\* function returns `success`.
copy_initiator_next ==
    /\ pc = "next"
    /\ IF di < Len(destinations)
       THEN /\ di' = di + 1
            /\ attempted' = Append(attempted, destinations[di + 1])
            /\ pc' = "hash_src"
            /\ UNCHANGED ret
       ELSE /\ pc' = "done"
            /\ ret' = IF success THEN "true" ELSE "false"
            /\ UNCHANGED <<di, attempted>>
    /\ UNCHANGED <<nonCopyVars, hash_check_enable, hash_func, source, chunk_size, max_workers,
                   destinations, disk, success, source_hash, num_chunks, results,
                   wstate, merge_i, outcome, faults>>

InitCopy ==
    /\ TemplateIdle
    /\ MatchIdle
    /\ RegistryIdle
    /\ hash_check_enable \in ConfiguredAlgorithms
    /\ hash_func = InitHashFunc(hash_check_enable)
    /\ \E s \in 0..MaxSize, e \in BOOLEAN : source = [exists |-> e, data |-> SourceData(s)]
    /\ chunk_size \in 1..MaxChunk
    /\ max_workers \in 1..MaxWorkers
    /\ \E n \in 0..MaxDest : destinations = [k \in 1..n |-> k]
    /\ disk = [d \in 1..MaxDest |-> EmptyDest]
    /\ pc = "call"
    /\ di = 0
    /\ success = TRUE
    /\ source_hash = <<>>
    /\ num_chunks = 0
    /\ results = <<>>
    /\ wstate = <<>>
    /\ merge_i = 0
    /\ outcome = [k \in 1..MaxDest |-> "none"]
    /\ attempted = <<>>
    /\ ret = "none"
    /\ faults = 0

\* The copy engine before any copy_initiator call, with nothing to copy.
CopyIdle ==
    /\ hash_check_enable = ""
    /\ hash_func = InitHashFunc("")
    /\ source = NoFile
    /\ chunk_size = 1
    /\ max_workers = 1
    /\ destinations = <<>>
    /\ disk = [d \in 1..MaxDest |-> EmptyDest]
    /\ pc = "idle"
    /\ di = 0
    /\ success = TRUE
    /\ source_hash = <<>>
    /\ num_chunks = 0
    /\ results = <<>>
    /\ wstate = <<>>
    /\ merge_i = 0
    /\ outcome = [k \in 1..MaxDest |-> "none"]
    /\ attempted = <<>>
    /\ ret = "none"
    /\ faults = 0

NextCopy ==
    \/ copy_initiator_call
    \/ copy_initiator_source_hash
    \/ fastcopy_begin
    \/ \E i \in PartIds : copy_chunk_start(i)
    \/ \E i \in PartIds : copy_chunk_finish(i)
    \/ fastcopy_join
    \/ part_file_vanishes
    \/ fastcopy_merge
    \/ fastcopy_verify
    \/ copy_initiator_verify
    \/ copy_initiator_next

SpecCopy == InitCopy /\ [][NextCopy]_vars

\* ------------------------------------------------------- copy engine: claims
DestIdx == 1..Len(destinations)
PartsLeft(d) == {i \in PartIds : disk[d].parts[i].exists}
Failed(k) == outcome[k] \in {"copy_failed", "hash_mismatch", "error"}

\* The failures C1 lists: __fastcopy returned False (a chunk task failed, a
\* part was missing at merge, merge or copystat raised, the size check
\* failed) or the hashes differed.
CopyFailed(k) == outcome[k] \in {"copy_failed", "hash_mismatch"}

\* C1: when copy_initiator has returned, a destination whose copy failed
\* holds neither the target file nor any <target>.partN file.
C1_FailedCopyLeavesNothing ==
    pc = "done" =>
        \A k \in DestIdx :
            CopyFailed(k) => /\ ~disk[destinations[k]].target.exists
                         /\ PartsLeft(destinations[k]) = {}

SourceBefore(i) ==
    SubSeq(source.data, 1, IF i = num_chunks THEN Len(source.data) ELSE start_pos(i))

\* C25: in a chunked copy, in whatever order the chunk tasks run and end,
\* at most max_workers of them run at once, the merge begins only when all
\* num_chunks tasks have ended, the merge appends the part files in
\* ascending index (so that, no I/O fault having occurred, the target holds
\* the source's bytes before the next chunk), and the target of a
\* successful chunked copy is byte for byte the source.
C25_MergeAfterAllWorkersInOrder ==
    /\ Cardinality(Running) <= max_workers
    /\ pc = "merge" =>
          /\ DOMAIN wstate = 0..(num_chunks - 1)
          /\ \A i \in 0..(num_chunks - 1) : wstate[i] = "done"
          /\ merge_i \in 0..num_chunks
          /\ \A i \in 0..(num_chunks - 1) :
                i < merge_i => ~disk[CurDest].parts[i].exists
          /\ faults = 0 => disk[CurDest].target = File(SourceBefore(merge_i))
    /\ \A k \in DestIdx :
          (outcome[k] = "ok" /\ ~(Len(source.data) < chunk_size * 2)) =>
              disk[destinations[k]].target = File(source.data)

\* C25 witness: the merge of a copy in two chunks or more has appended
\* every part and the target is the source.
C25_Witness ==
    /\ pc = "merge"
    /\ num_chunks >= 2
    /\ merge_i = num_chunks
    /\ disk[CurDest].target = File(source.data)

\* ceil(a / b) for b >= 1.
CeilDiv(a, b) == IF a % b = 0 THEN a \div b ELSE (a \div b) + 1

Letters == {"a","b","c","d","e","f","g","h","i","j","k","l","m","n","o","p","q",
            "r","s","t","u","v","w","x","y","z","A","B","C","D","E","F","G","H",
            "I","J","K","L","M","N","O","P","Q","R","S","T","U","V","W","X","Y","Z"}
Digits == {"0","1","2","3","4","5","6","7","8","9"}
\* The regex class \w.
WordChars == Letters \cup Digits \cup {"_"}

DigitValue(c) ==
    CASE c = "0" -> 0 [] c = "1" -> 1 [] c = "2" -> 2 [] c = "3" -> 3 [] c = "4" -> 4
      [] c = "5" -> 5 [] c = "6" -> 6 [] c = "7" -> 7 [] c = "8" -> 8 [] c = "9" -> 9
DigitChar(n) == <<"0","1","2","3","4","5","6","7","8","9">>[n + 1]

\* int(s) for a string of digits.
RECURSIVE PyInt(_)
PyInt(s) ==
    IF s = <<>> THEN 0
    ELSE 10 * PyInt(SubSeq(s, 1, Len(s) - 1)) + DigitValue(s[Len(s)])

\* str(n) for an integer n >= 0.
RECURSIVE PyStrInt(_)
PyStrInt(n) == IF n < 10 THEN <<DigitChar(n)>> ELSE PyStrInt(n \div 10) \o <<DigitChar(n % 10)>>

\* s[i:] (i is a 1-based position here).
Tail_from(s, i) == SubSeq(s, i, Len(s))

\* str.startswith
StartsWith(s, p) == Len(p) <= Len(s) /\ SubSeq(s, 1, Len(p)) = p
\* str.endswith
EndsWith(s, p) == Len(p) <= Len(s) /\ SubSeq(s, Len(s) - Len(p) + 1, Len(s)) = p

\* The end (first position after it) of the longest run of characters of
\* class C starting at position i: what a greedy C* consumes.
RECURSIVE RunEnd(_, _, _)
RunEnd(s, i, C) == IF i <= Len(s) /\ s[i] \in C THEN RunEnd(s, i + 1, C) ELSE i

\* The same for the class [^}].
RECURSIVE NotCloseRunEnd(_, _)
NotCloseRunEnd(s, i) == IF i <= Len(s) /\ s[i] # "}" THEN NotCloseRunEnd(s, i + 1) ELSE i

\* The same for the class [^.].
RECURSIVE NotDotRunEnd(_, _)
NotDotRunEnd(s, i) == IF i <= Len(s) /\ s[i] # "." THEN NotDotRunEnd(s, i + 1) ELSE i

\* The position of the first occurrence of character c at or after i, or
\* Len(s) + 1.
RECURSIVE Find(_, _, _)
Find(s, c, i) == IF i > Len(s) \/ s[i] = c THEN i ELSE Find(s, c, i + 1)

\* str.split(c): the list of the pieces between occurrences of c.
RECURSIVE Split(_, _)
Split(s, c) ==
    LET k == Find(s, c, 1) IN
    IF k > Len(s) THEN <<s>>
    ELSE <<SubSeq(s, 1, k - 1)>> \o Split(Tail_from(s, k + 1), c)

\* c.join(parts)
RECURSIVE Join(_, _)
Join(parts, c) ==
    IF parts = <<>> THEN <<>>
    ELSE IF Len(parts) = 1 THEN parts[1]
    ELSE parts[1] \o <<c>> \o Join(Tail(parts), c)

\* str.strip() for the whitespace of the model, the blank.
RECURSIVE LStrip(_)
LStrip(s) == IF s # <<>> /\ s[1] = " " THEN LStrip(Tail(s)) ELSE s
RECURSIVE RStrip(_)
RStrip(s) == IF s # <<>> /\ s[Len(s)] = " " THEN RStrip(SubSeq(s, 1, Len(s) - 1)) ELSE s
Strip(s) == RStrip(LStrip(s))

\* Concatenation of a list of strings.
RECURSIVE Concat(_)
Concat(parts) == IF parts = <<>> THEN <<>> ELSE parts[1] \o Concat(Tail(parts))

\* os.path.join(a, b) on a POSIX host.
os_path_join(a, b) ==
    IF StartsWith(b, <<"/">>) THEN b
    ELSE IF a = <<>> \/ EndsWith(a, <<"/">>) THEN a \o b
    ELSE a \o <<"/">> \o b

\* C22: when the configured hash algorithm is the empty string or is not
\* supported by the host, no hashing is performed: no source or target hash
\* is computed and no destination fails for a hash mismatch.
C22_NoAlgorithmNoHashing ==
    (hash_check_enable = "" \/ hash_check_enable \notin AlgorithmsAvailable) =>
        /\ source_hash = <<>>
        /\ \A k \in 1..Len(outcome) : outcome[k] # "hash_mismatch"

\* ================================================================== renderer
\* Values of the variable environment: a str, an int, a list of str, None.
StrV(s) == [t |-> "str", v |-> s]
IntV(n) == [t |-> "int", v |-> n]
ListV(l) == [t |-> "list", v |-> l]
NoneV == [t |-> "none", v |-> <<>>]

\* repr() of a str without quotes or escapes in it.
PyReprStr(s) == <<"'">> \o s \o <<"'">>
\* str() of a list of str: "['p', 'q']".
RECURSIVE PyReprItems(_)
PyReprItems(l) ==
    IF l = <<>> THEN <<>>
    ELSE IF Len(l) = 1 THEN PyReprStr(l[1])
    ELSE PyReprStr(l[1]) \o <<",", " ">> \o PyReprItems(Tail(l))
\* str(value)
PyStr(val) ==
    CASE val.t = "str" -> val.v
      [] val.t = "int" -> PyStrInt(val.v)
      [] val.t = "list" -> <<"[">> \o PyReprItems(val.v) \o <<"]">>
      [] val.t = "none" -> <<"N", "o", "n", "e">>
\* bool(value)
Truthy(val) ==
    CASE val.t = "str" -> val.v # <<>>
      [] val.t = "int" -> val.v # 0
      [] val.t = "list" -> val.v # <<>>
      [] val.t = "none" -> FALSE

NoMatch == [ok |-> FALSE]

\* array_default_pattern  \{(\w+)\[(\d+)\]:([^}]+)\}  tried at position i.
match_array_default(s, i) ==
    IF ~(i <= Len(s) /\ s[i] = "{") THEN NoMatch ELSE
    LET j == RunEnd(s, i + 1, WordChars) IN
    IF ~(j > i + 1 /\ j <= Len(s) /\ s[j] = "[") THEN NoMatch ELSE
    LET k == RunEnd(s, j + 1, Digits) IN
    IF ~(k > j + 1 /\ k + 1 <= Len(s) /\ s[k] = "]" /\ s[k + 1] = ":") THEN NoMatch ELSE
    LET l == NotCloseRunEnd(s, k + 2) IN
    IF ~(l > k + 2 /\ l <= Len(s)) THEN NoMatch ELSE
    [ok |-> TRUE, name |-> SubSeq(s, i + 1, j - 1), idx |-> SubSeq(s, j + 1, k - 1),
     default |-> SubSeq(s, k + 2, l - 1), end |-> l + 1]

\* array_pattern  \{(\w+)\[(\d+)\]\}  tried at position i.
match_array(s, i) ==
    IF ~(i <= Len(s) /\ s[i] = "{") THEN NoMatch ELSE
    LET j == RunEnd(s, i + 1, WordChars) IN
    IF ~(j > i + 1 /\ j <= Len(s) /\ s[j] = "[") THEN NoMatch ELSE
    LET k == RunEnd(s, j + 1, Digits) IN
    IF ~(k > j + 1 /\ k + 1 <= Len(s) /\ s[k] = "]" /\ s[k + 1] = "}") THEN NoMatch ELSE
    [ok |-> TRUE, name |-> SubSeq(s, i + 1, j - 1), idx |-> SubSeq(s, j + 1, k - 1),
     end |-> k + 2]

\* default_pattern  \{(\w+):([^}]+)\}  tried at position i.
match_default(s, i) ==
    IF ~(i <= Len(s) /\ s[i] = "{") THEN NoMatch ELSE
    LET j == RunEnd(s, i + 1, WordChars) IN
    IF ~(j > i + 1 /\ j <= Len(s) /\ s[j] = ":") THEN NoMatch ELSE
    LET l == NotCloseRunEnd(s, j + 1) IN
    IF ~(l > j + 1 /\ l <= Len(s)) THEN NoMatch ELSE
    [ok |-> TRUE, name |-> SubSeq(s, i + 1, j - 1), default |-> SubSeq(s, j + 1, l - 1),
     end |-> l + 1]

\* normal_pattern  \{(\w+)\}  tried at position i.
match_normal(s, i) ==
    IF ~(i <= Len(s) /\ s[i] = "{") THEN NoMatch ELSE
    LET j == RunEnd(s, i + 1, WordChars) IN
    IF ~(j > i + 1 /\ j <= Len(s) /\ s[j] = "}") THEN NoMatch ELSE
    [ok |-> TRUE, name |-> SubSeq(s, i + 1, j - 1), end |-> j + 1]

InRange(val, index) == val.t = "list" /\ 0 <= index /\ index < Len(val.v)

replace_array_with_default(m, variables) ==
    LET index == PyInt(m.idx) IN
    IF m.name \in DOMAIN variables /\ InRange(variables[m.name], index)
    THEN variables[m.name].v[index + 1]
    ELSE m.default

replace_array_access(m, variables) ==
    LET index == PyInt(m.idx) IN
    IF m.name \in DOMAIN variables /\ InRange(variables[m.name], index)
    THEN variables[m.name].v[index + 1]
    ELSE <<"u", "n", "k", "n", "o", "w", "n">>

replace_with_default(m, variables) ==
    IF m.name \in DOMAIN variables /\ Truthy(variables[m.name])
    THEN PyStr(variables[m.name])
    ELSE m.default

\* A renderer that treats an absent name like an out-of-range index.
replace_normal_unknown(m, variables) ==
    IF m.name \in DOMAIN variables
    THEN PyStr(variables[m.name])
    ELSE <<"u", "n", "k", "n", "o", "w", "n">>

replace_normal_variable(m, variables) ==
    IF m.name \in DOMAIN variables
    THEN LET value == variables[m.name] IN
         IF value.t = "none" \/ value = StrV(<<>>) \/ value = ListV(<<>>) THEN <<>>
         ELSE PyStr(value)
    ELSE <<"{">> \o m.name \o <<"}">>

\* pattern.sub(replacement, s): one left-to-right pass from position i.
RECURSIVE sub_array_default(_, _, _)
sub_array_default(s, i, variables) ==
    IF i > Len(s) THEN <<>> ELSE
    LET m == match_array_default(s, i) IN
    IF m.ok THEN replace_array_with_default(m, variables) \o sub_array_default(s, m.end, variables)
    ELSE <<s[i]>> \o sub_array_default(s, i + 1, variables)

RECURSIVE sub_array(_, _, _)
sub_array(s, i, variables) ==
    IF i > Len(s) THEN <<>> ELSE
    LET m == match_array(s, i) IN
    IF m.ok THEN replace_array_access(m, variables) \o sub_array(s, m.end, variables)
    ELSE <<s[i]>> \o sub_array(s, i + 1, variables)

RECURSIVE sub_default(_, _, _)
sub_default(s, i, variables) ==
    IF i > Len(s) THEN <<>> ELSE
    LET m == match_default(s, i) IN
    IF m.ok THEN replace_with_default(m, variables) \o sub_default(s, m.end, variables)
    ELSE <<s[i]>> \o sub_default(s, i + 1, variables)

RECURSIVE sub_normal(_, _, _)
sub_normal(s, i, variables) ==
    IF i > Len(s) THEN <<>> ELSE
    LET m == match_normal(s, i) IN
    IF m.ok THEN replace_normal_variable(m, variables) \o sub_normal(s, m.end, variables)
    ELSE <<s[i]>> \o sub_normal(s, i + 1, variables)

\* The segments _clean_path_segments keeps: non-blank ones, stripped.
RECURSIVE kept_segments(_)
kept_segments(segs) ==
    IF segs = <<>> THEN <<>>
    ELSE IF segs[1] # <<>> /\ Strip(segs[1]) # <<>>
         THEN <<Strip(segs[1])>> \o kept_segments(Tail(segs))
         ELSE kept_segments(Tail(segs))

clean_path_segments(path) ==
    IF StartsWith(path, <<"/">>)
    THEN <<"/">> \o Join(kept_segments(Split(path, "/")), "/")
    ELSE Join(kept_segments(Split(path, "/")), "/")

resolve_template_variables(template, variables, dest_dir) ==
    LET r1 == sub_array_default(template, 1, variables)
        r2 == sub_array(r1, 1, variables)
        r3 == sub_default(r2, 1, variables)
        r4 == sub_normal(r3, 1, variables)
        r5 == clean_path_segments(r4)
    IN IF ~StartsWith(r5, dest_dir) THEN os_path_join(dest_dir, r5) ELSE r5

\* ==================================================================== parser
\* re.findall(r'\{([^}]+)\}', s) from position i: the captured groups.
RECURSIVE findall_braces(_, _)
findall_braces(s, i) ==
    IF i > Len(s) THEN <<>>
    ELSE IF s[i] # "{" THEN findall_braces(s, i + 1)
    ELSE LET l == NotCloseRunEnd(s, i + 1) IN
         IF l > i + 1 /\ l <= Len(s)
         THEN <<SubSeq(s, i + 1, l - 1)>> \o findall_braces(s, l + 1)
         ELSE findall_braces(s, i + 1)

\* match.split('[')[0]
var_name_of(match) == Split(match, "[")[1]

parse_template_variables(tpl) ==
    LET matches == findall_braces(tpl, 1)
    IN {var_name_of(matches[k]) : k \in 1..Len(matches)}

\* ------------------------------------------------- parser / renderer calls
\* Templates are built from these pieces: the four token shapes over the
\* variable v, separators, literal text and stray token fragments.
Pieces == { <<"{","v","}">>,
            <<"{","v","[","0","]","}">>,
            <<"{","v",":","d","}">>,
            <<"{","v","[","1","]",":","d","}">>,
            <<"/">>, <<" ">>, <<"x">>, <<"{">>, <<"}">>, <<"[","0","]">> }

RECURSIVE PieceSeqs(_)
PieceSeqs(n) ==
    IF n = 0 THEN {<<>>}
    ELSE LET shorter == PieceSeqs(n - 1)
         IN shorter \cup {ps \o <<p>> : ps \in {q \in shorter : Len(q) = n - 1}, p \in Pieces}

Templates == {Concat(ps) : ps \in PieceSeqs(MaxPieces)}

VarV == <<"v">>
\* The environments: v is absent, or bound to one of these values, the last
\* of which is a list whose element reads like a token.
SampleValues == { NoneV, StrV(<<>>), StrV(<<"s">>), ListV(<<>>),
                  ListV(<< <<"p">>, <<"q">> >>), IntV(0), IntV(7),
                  ListV(<< <<"{","v","}">> >>) }
Environments == {<<>>} \cup {[n \in {VarV} |-> val] : val \in SampleValues}

DestDirs == { <<"/","o">>, <<"o">> }

InitTemplate ==
    /\ CopyIdle
    /\ MatchIdle
    /\ RegistryIdle
    /\ t_template \in Templates
    /\ t_variables \in Environments
    /\ t_dest_dir \in DestDirs
    /\ parsed = [done |-> FALSE, value |-> {}]
    /\ rendered = [done |-> FALSE, value |-> <<>>]

call_parse_template_variables ==
    /\ ~parsed.done
    /\ parsed' = [done |-> TRUE, value |-> parse_template_variables(t_template)]
    /\ UNCHANGED <<nonTplVars, t_template, t_variables, t_dest_dir, rendered>>

call_resolve_template_variables ==
    /\ ~rendered.done
    /\ rendered' = [done |-> TRUE,
                    value |-> resolve_template_variables(t_template, t_variables, t_dest_dir)]
    /\ UNCHANGED <<nonTplVars, t_template, t_variables, t_dest_dir, parsed>>

NextTemplate ==
    \/ call_parse_template_variables
    \/ call_resolve_template_variables

SpecTemplate == InitTemplate /\ [][NextTemplate]_vars

\* ------------------------------------------------------------------ claims
\* The segments of a path, the leading "/" of an absolute path set aside.
PathSegments(path) ==
    IF StartsWith(path, <<"/">>) THEN Split(Tail(path), "/") ELSE Split(path, "/")
HasDoubleSlash(path) ==
    \E i \in 1..(Len(path) - 1) : path[i] = "/" /\ path[i + 1] = "/"
HasEmptySegment(path) ==
    \E k \in 1..Len(PathSegments(path)) : PathSegments(path)[k] = <<>>

\* C7: every rendered path contains no "//", has no empty segment, does not
\* end with "/" and begins with the configured output directory.
C7_RenderedPathIsClean ==
    rendered.done =>
        /\ ~HasDoubleSlash(rendered.value)
        /\ ~HasEmptySegment(rendered.value)
        /\ ~EndsWith(rendered.value, <<"/">>)
        /\ StartsWith(rendered.value, t_dest_dir)

\* The NAMEs of the tokens of a template: the name group of every match of
\* one of the four token shapes, at any position.
TokenNames(tpl) ==
    {m.name : m \in {mm \in UNION {{match_array_default(tpl, i), match_array(tpl, i),
                                    match_default(tpl, i), match_normal(tpl, i)}
                                   : i \in 1..Len(tpl)} : mm.ok}}

\* C8: parse_template_variables returns exactly the NAMEs of the tokens of
\* the template, without index or default text, and nothing for malformed
\* tokens.
C8_ParseReturnsTokenNames ==
    parsed.done => parsed.value = TokenNames(t_template)

\* Literal text before and after a token.
Literal == {<<>>, <<"x">>}
\* The empty values: None, "" and [].
IsEmptyValue(val) == val \in {NoneV, StrV(<<>>), ListV(<<>>)}
\* The output directory joined with the text the template turned into.
Placed(dest_dir, text) == os_path_join(dest_dir, text)

\* C17: a token {v:d} renders as d when v is absent from the environment or
\* its value is None, "" or [], and as str(value) for every other value
\* (non-empty string, integer, non-empty list).
C17_DefaultTokenRendering ==
    \A pre \in Literal, post \in Literal :
        (rendered.done /\ t_template = pre \o <<"{","v",":","d","}">> \o post) =>
            rendered.value =
                Placed(t_dest_dir,
                       pre \o (IF VarV \notin DOMAIN t_variables \/ IsEmptyValue(t_variables[VarV])
                               THEN <<"d">> ELSE PyStr(t_variables[VarV])) \o post)

\* C18: a token {v} whose name is absent from the environment stays in the
\* output as the token text and a path is still returned; when v is present
\* with None, "" or [] the token renders as the empty string.
C18_NormalTokenRendering ==
    \A pre \in Literal, post \in Literal :
        (rendered.done /\ t_template = pre \o <<"{","v","}">> \o post) =>
            /\ VarV \notin DOMAIN t_variables =>
                   rendered.value = Placed(t_dest_dir, pre \o <<"{","v","}">> \o post)
            /\ (VarV \in DOMAIN t_variables /\ IsEmptyValue(t_variables[VarV])) =>
                   rendered.value = Placed(t_dest_dir, pre \o post)
C18_Witness ==
    /\ rendered.done
    /\ t_template = <<"x", "{","v","}">>
    /\ VarV \notin DOMAIN t_variables
    /\ rendered.value = t_dest_dir \o <<"/", "x", "{","v","}">>

\* A renderer of one left-to-right pass: at each position the token that
\* begins there, of whichever of the four shapes, is replaced and the scan
\* goes on behind it; what was inserted is not scanned.
RECURSIVE OnePass(_, _, _)
OnePass(s, i, variables) ==
    IF i > Len(s) THEN <<>>
    ELSE IF match_array_default(s, i).ok
    THEN replace_array_with_default(match_array_default(s, i), variables)
         \o OnePass(s, match_array_default(s, i).end, variables)
    ELSE IF match_array(s, i).ok
    THEN replace_array_access(match_array(s, i), variables)
         \o OnePass(s, match_array(s, i).end, variables)
    ELSE IF match_default(s, i).ok
    THEN replace_with_default(match_default(s, i), variables)
         \o OnePass(s, match_default(s, i).end, variables)
    ELSE IF match_normal(s, i).ok
    THEN replace_normal_variable(match_normal(s, i), variables)
         \o OnePass(s, match_normal(s, i).end, variables)
    ELSE <<s[i]>> \o OnePass(s, i + 1, variables)

\* The path of the one-pass renderer: cleaned and placed like the other.
OnePassPath(template, variables, dest_dir) ==
    LET r5 == clean_path_segments(OnePass(template, 1, variables))
    IN IF ~StartsWith(r5, dest_dir) THEN os_path_join(dest_dir, r5) ELSE r5

\* C27: the rendered path is that of a renderer of one left-to-right pass,
\* for every template and environment: text that a substitution inserted
\* is not taken for a token and substituted again.
C27_RenderingIsOnePass ==
    rendered.done => rendered.value = OnePassPath(t_template, t_variables, t_dest_dir)

\* =========================================================== wildcard matcher
\* Strategy of src/project_components/pyside6_plugins/manual_grouping.py, a
\* WILDCARD strategy with a non-blank range_filter.  A constraint is None or
\* one of the dicts _parse_single_constraint builds.
NoConstraint == [type |-> "none", value |-> <<>>, number |-> 0, values |-> {}, min |-> 0, max |-> 0]
ExactString(s) == [type |-> "exact_string", value |-> s, number |-> 0, values |-> {}, min |-> 0, max |-> 0]
ExactNumber(n) == [type |-> "exact_number", value |-> <<>>, number |-> n, values |-> {}, min |-> 0, max |-> 0]
Values(vs) == [type |-> "values", value |-> <<>>, number |-> 0, values |-> vs, min |-> 0, max |-> 0]
Range(lo, hi) == [type |-> "range", value |-> <<>>, number |-> 0, values |-> {}, min |-> lo, max |-> hi]

\* str.isdigit()
IsDigit(s) == s # <<>> /\ \A i \in 1..Len(s) : s[i] \in Digits

\* pattern.count('*')
RECURSIVE CountStars(_)
CountStars(pattern) ==
    IF pattern = <<>> THEN 0
    ELSE (IF pattern[1] = "*" THEN 1 ELSE 0) + CountStars(Tail(pattern))

\* '**' in pattern
HasConsecutiveStars(pattern) ==
    \E i \in 1..(Len(pattern) - 1) : pattern[i] = "*" /\ pattern[i + 1] = "*"

is_valid_capture(captured_text, constraint) ==
    CASE constraint.type = "none" -> TRUE
      [] constraint.type = "exact_string" -> captured_text = constraint.value
      [] constraint.type = "range" ->
            /\ IsDigit(captured_text)
            /\ constraint.min <= PyInt(captured_text)
            /\ PyInt(captured_text) <= constraint.max
      [] constraint.type = "exact_number" ->
            IsDigit(captured_text) /\ PyInt(captured_text) = constraint.number
      [] constraint.type = "values" -> captured_text \in constraint.values

\* _validate_single_constraint decides exactly as _is_valid_capture does.
validate_single_constraint(captured_value, constraint) ==
    is_valid_capture(captured_value, constraint)

validate_constraints(captured_groups, constraints) ==
    LET max_len == IF Len(captured_groups) > Len(constraints)
                   THEN Len(captured_groups) ELSE Len(constraints)
    IN \A i \in 1..max_len :
          LET captured == IF i <= Len(captured_groups) THEN captured_groups[i] ELSE <<>>
              constraint == IF i <= Len(constraints) THEN constraints[i] ELSE NoConstraint
          IN constraint.type = "none" \/ validate_single_constraint(captured, constraint)

\* _parse_wildcard_pattern: the list of '*' and maximal fixed parts.
RECURSIVE parse_wildcard_pattern(_, _)
parse_wildcard_pattern(pattern, current_fixed) ==
    IF pattern = <<>> THEN (IF current_fixed # <<>> THEN <<current_fixed>> ELSE <<>>)
    ELSE IF pattern[1] = "*"
         THEN (IF current_fixed # <<>> THEN <<current_fixed>> ELSE <<>>)
              \o << <<"*">> >> \o parse_wildcard_pattern(Tail(pattern), <<>>)
         ELSE parse_wildcard_pattern(Tail(pattern), current_fixed \o <<pattern[1]>>)

IsStar(part) == part = <<"*">>

\* _build_capture_pattern for a pattern without '**': the regex as a list of
\* elements, a literal, a lazy group ([^.]*?) for every '*' but the last and
\* a greedy group ([^.]*) for the last.
RECURSIVE capture_elements(_, _, _)
capture_elements(parts, current_star, star_count) ==
    IF parts = <<>> THEN <<>>
    ELSE IF IsStar(parts[1])
         THEN <<[kind |-> IF current_star = star_count - 1 THEN "greedy" ELSE "lazy",
                 text |-> <<>>]>>
              \o capture_elements(Tail(parts), current_star + 1, star_count)
         ELSE <<[kind |-> "lit", text |-> parts[1]]>>
              \o capture_elements(Tail(parts), current_star, star_count)

build_capture_pattern(wildcard_pattern) ==
    capture_elements(parse_wildcard_pattern(wildcard_pattern, <<>>), 0,
                     CountStars(wildcard_pattern))

MatchFail == [ok |-> FALSE, groups |-> <<>>]

\* re.match(regex, text): the regex engine from element k at position pos
\* (1-based).  Anchored at the start only; a lazy group tries the shortest
\* capture first, a greedy one the longest; the first success wins.
RECURSIVE re_match(_, _, _, _)
re_match(regex, k, text, pos) ==
    IF k > Len(regex) THEN [ok |-> TRUE, groups |-> <<>>]
    ELSE IF regex[k].kind = "lit"
    THEN LET lit == regex[k].text IN
         IF pos + Len(lit) - 1 <= Len(text) /\ SubSeq(text, pos, pos + Len(lit) - 1) = lit
         THEN re_match(regex, k + 1, text, pos + Len(lit))
         ELSE MatchFail
    ELSE LET run == NotDotRunEnd(text, pos) - pos
             good == {n \in 0..run : re_match(regex, k + 1, text, pos + n).ok}
         IN IF good = {} THEN MatchFail
            ELSE LET n == IF regex[k].kind = "lazy"
                          THEN CHOOSE x \in good : \A y \in good : x <= y
                          ELSE CHOOSE x \in good : \A y \in good : x >= y
                     rest == re_match(regex, k + 1, text, pos + n)
                 IN [ok |-> TRUE, groups |-> <<SubSeq(text, pos, pos + n - 1)>> \o rest.groups]

\* The sum of the lengths of the fixed parts after part part_idx (1-based).
RECURSIVE remaining_fixed_len(_, _)
remaining_fixed_len(pattern_parts, part_idx) ==
    IF part_idx >= Len(pattern_parts) THEN 0
    ELSE (IF IsStar(pattern_parts[part_idx + 1]) THEN 0 ELSE Len(pattern_parts[part_idx + 1]))
         + remaining_fixed_len(pattern_parts, part_idx + 1)

\* backtrack of _universal_dp_match: part_idx and text_pos are 1-based here.
\* A wildcard tries the capture lengths in increasing order, skips the ones
\* its constraint rejects, and returns the first that lets the rest match.
RECURSIVE backtrack(_, _, _, _, _, _)
backtrack(text, pattern_parts, constraints, part_idx, text_pos, captures) ==
    IF part_idx > Len(pattern_parts)
    THEN IF text_pos > Len(text) THEN [ok |-> TRUE, groups |-> captures] ELSE MatchFail
    ELSE IF IsStar(pattern_parts[part_idx])
    THEN LET wildcard_idx == Len(captures) + 1
             max_match_len == Len(text) - (text_pos - 1)
                              - remaining_fixed_len(pattern_parts, part_idx)
             try(n) == backtrack(text, pattern_parts, constraints, part_idx + 1, text_pos + n,
                                 captures \o <<SubSeq(text, text_pos, text_pos + n - 1)>>)
             good == {n \in 0..max_match_len :
                        /\ \/ wildcard_idx > Len(constraints)
                           \/ is_valid_capture(SubSeq(text, text_pos, text_pos + n - 1),
                                               constraints[wildcard_idx])
                        /\ try(n).ok}
         IN IF good = {} THEN MatchFail
            ELSE try(CHOOSE x \in good : \A y \in good : x <= y)
    ELSE LET fixed_text == pattern_parts[part_idx] IN
         IF text_pos - 1 + Len(fixed_text) > Len(text) THEN MatchFail
         ELSE IF SubSeq(text, text_pos, text_pos + Len(fixed_text) - 1) # fixed_text
         THEN MatchFail
         ELSE backtrack(text, pattern_parts, constraints, part_idx + 1,
                        text_pos + Len(fixed_text), captures)

\* pattern.find('*') and pattern.rfind('*'), as 1-based positions (0: none).
first_star(pattern) ==
    IF \E i \in 1..Len(pattern) : pattern[i] = "*"
    THEN CHOOSE i \in 1..Len(pattern) : pattern[i] = "*" /\ \A j \in 1..(i - 1) : pattern[j] # "*"
    ELSE 0
last_star(pattern) ==
    IF \E i \in 1..Len(pattern) : pattern[i] = "*"
    THEN CHOOSE i \in 1..Len(pattern) :
            pattern[i] = "*" /\ \A j \in (i + 1)..Len(pattern) : pattern[j] # "*"
    ELSE 0

\* The fixed text before the first '*' and after the last '*'.
pattern_prefix(pattern) == SubSeq(pattern, 1, first_star(pattern) - 1)
pattern_suffix(pattern) == SubSeq(pattern, last_star(pattern) + 1, Len(pattern))

dp_wildcard_match(text, pattern, wildcard_count, constraints) ==
    IF text = <<>>
    THEN IF \A k \in 1..Len(constraints) : is_valid_capture(<<>>, constraints[k])
         THEN [ok |-> TRUE, groups |-> [k \in 1..wildcard_count |-> <<>>]]
         ELSE MatchFail
    ELSE LET pattern_for_middle == SubSeq(pattern, first_star(pattern), last_star(pattern))
         IN backtrack(text, parse_wildcard_pattern(pattern_for_middle, <<>>), constraints,
                      1, 1, <<>>)

validate_consecutive_wildcards(filename, pattern, constraints) ==
    LET prefix == pattern_prefix(pattern)
        suffix == pattern_suffix(pattern)
    IN IF prefix # <<>> /\ ~StartsWith(filename, prefix) THEN FALSE
       ELSE IF suffix # <<>> /\ ~EndsWith(filename, suffix) THEN FALSE
       ELSE LET after_prefix == Tail_from(filename, Len(prefix) + 1)
                \* middle_part[:-len(suffix)]
                middle_part == IF suffix = <<>> THEN after_prefix
                               ELSE SubSeq(after_prefix, 1, Len(after_prefix) - Len(suffix))
                captured == dp_wildcard_match(middle_part, pattern, CountStars(pattern),
                                              constraints)
            IN captured.ok /\ validate_constraints(captured.groups, constraints)

re_match_prefix(regex, text) == re_match(regex, 1, text, 1)

\* _parse_wildcard_with_constraints for constraints whose number equals the
\* number of '*' (any other number raises ValueError when the Strategy is
\* constructed).
parse_wildcard_with_constraints(filename, pattern, constraints) ==
    IF HasConsecutiveStars(pattern)
    THEN validate_consecutive_wildcards(filename, pattern, constraints)
    ELSE LET match == re_match_prefix(build_capture_pattern(pattern), filename)
         IN match.ok /\ validate_constraints(match.groups, constraints)

matches(filename, pattern, constraints) ==
    parse_wildcard_with_constraints(filename, pattern, constraints)

\* ------------------------------------------------------------ matcher calls
PatternChars == {"*", "a", "."}
NameChars == {"a", "1", "."}

RECURSIVE StringsUpTo(_, _)
StringsUpTo(chars, n) ==
    IF n = 0 THEN {<<>>}
    ELSE LET shorter == StringsUpTo(chars, n - 1)
         IN shorter \cup {w \o <<c>> : w \in {x \in shorter : Len(x) = n - 1}, c \in chars}

Patterns == {w \in StringsUpTo(PatternChars, MaxPattern) : CountStars(w) >= 1}
Filenames == StringsUpTo(NameChars, MaxName)

\* What _parse_constraints yields for "", "{}", "{a}", "{1}", "{1-11}" and
\* "{1,a1}".
SampleConstraints == { NoConstraint, ExactString(<<>>), ExactString(<<"a">>), ExactNumber(1),
                       Range(1, 11), Values({<<"1">>, <<"a", "1">>}) }

\* A non-blank range_filter never parses to a single None.
ConstraintLists(n) ==
    {cs \in [1..n -> SampleConstraints] : n = 1 => cs[1] # NoConstraint}

InitMatch ==
    /\ CopyIdle
    /\ TemplateIdle
    /\ RegistryIdle
    /\ GroupingIdle
    /\ m_pattern \in Patterns
    /\ m_range_filter = <<>>
    /\ strategy = "constructed"
    /\ m_constraints \in ConstraintLists(CountStars(m_pattern))
    /\ m_filename \in Filenames
    /\ matched = [done |-> FALSE, value |-> FALSE]

call_matches ==
    /\ ~matched.done
    /\ matched' = [done |-> TRUE, value |-> matches(m_filename, m_pattern, m_constraints)]
    /\ UNCHANGED <<nonMatchVars, groupingVars, m_pattern, m_range_filter, strategy, m_constraints,
                   m_filename>>

NextMatch == call_matches

SpecMatch == InitMatch /\ [][NextMatch]_vars

\* ------------------------------------------------------------------ claims
\* There is an assignment of one substring to each '*', each satisfying its
\* constraint, that makes the pattern equal the whole text.
RECURSIVE AssignmentExists(_, _, _)
AssignmentExists(pattern_parts, constraints, text) ==
    IF pattern_parts = <<>> THEN text = <<>>
    ELSE IF IsStar(pattern_parts[1])
    THEN \E n \in 0..Len(text) :
            /\ is_valid_capture(SubSeq(text, 1, n), constraints[1])
            /\ AssignmentExists(Tail(pattern_parts), Tail(constraints), Tail_from(text, n + 1))
    ELSE /\ StartsWith(text, pattern_parts[1])
         /\ AssignmentExists(Tail(pattern_parts), constraints,
                             Tail_from(text, Len(pattern_parts[1]) + 1))

\* C6: a wildcard strategy with constraints matches a filename if and only
\* if some assignment of captures, each satisfying its constraint, makes the
\* pattern equal the entire filename.
C6_MatchesIffAssignmentExists ==
    matched.done =>
        (matched.value <=>
            AssignmentExists(parse_wildcard_pattern(m_pattern, <<>>), m_constraints, m_filename))

\* The patterns with consecutive '*'s, long enough for a literal between
\* two wildcards and for a prefix together with a suffix.
ConsecutivePatterns ==
    {w \in StringsUpTo(PatternChars, MaxPattern + 1) : HasConsecutiveStars(w)}

InitConsecutive ==
    /\ CopyIdle
    /\ TemplateIdle
    /\ RegistryIdle
    /\ GroupingIdle
    /\ m_pattern \in ConsecutivePatterns
    /\ m_range_filter = <<>>
    /\ strategy = "constructed"
    /\ m_constraints \in ConstraintLists(CountStars(m_pattern))
    /\ m_filename \in Filenames
    /\ matched = [done |-> FALSE, value |-> FALSE]

\* matches() of strategies whose pattern has consecutive '*'s.
SpecConsecutive == InitConsecutive /\ [][NextMatch]_vars

\* C28: for a pattern with consecutive '*'s a match is reported only when
\* there is one capture per '*', possibly empty and each satisfying its
\* constraint, such that the fixed prefix, the captures interleaved with
\* the literal separators of the pattern, and the fixed suffix concatenate
\* to exactly the filename.
C28_ConsecutiveMatchHasCaptures ==
    (matched.done /\ matched.value /\ HasConsecutiveStars(m_pattern)) =>
        AssignmentExists(parse_wildcard_pattern(m_pattern, <<>>), m_constraints, m_filename)

\* ------------------------------------------------- constructing a Strategy
\* int(s): surrounding blanks and one sign are accepted.
PyIntParse(s) ==
    LET t == Strip(s)
        signed == t # <<>> /\ t[1] \in {"-", "+"}
        digits == IF signed THEN Tail(t) ELSE t
    IN IF IsDigit(digits)
       THEN [ok |-> TRUE, value |-> IF signed /\ t[1] = "-" THEN 0 - PyInt(digits) ELSE PyInt(digits)]
       ELSE [ok |-> FALSE, value |-> 0]

\* [v.strip() for v in parts]
StripEach(parts) == [k \in 1..Len(parts) |-> Strip(parts[k])]

parse_single_constraint(constraint_str) ==
    LET parts == Split(constraint_str, "-")
        is_range == /\ \E i \in 1..Len(constraint_str) : constraint_str[i] = "-"
                    /\ constraint_str[1] # "-"
                    /\ Len(parts) = 2
                    /\ PyIntParse(parts[1]).ok
                    /\ PyIntParse(parts[2]).ok
        values == StripEach(Split(constraint_str, ","))
    IN IF constraint_str = <<>> THEN ExactString(<<>>)
       ELSE IF is_range THEN Range(PyIntParse(parts[1]).value, PyIntParse(parts[2]).value)
       ELSE IF \E i \in 1..Len(constraint_str) : constraint_str[i] = ","
       THEN Values({values[k] : k \in 1..Len(values)})
       ELSE IF PyIntParse(constraint_str).ok THEN ExactNumber(PyIntParse(constraint_str).value)
       ELSE ExactString(constraint_str)

\* temp_filter.split(','): the range_filter from position i split at the
\* commas outside every match of \{[^}]*\}; part is the text since the
\* last such comma.
RECURSIVE split_outside_braces(_, _, _)
split_outside_braces(range_filter, i, part) ==
    IF i > Len(range_filter) THEN <<part>>
    ELSE LET l == NotCloseRunEnd(range_filter, i + 1) IN
         IF range_filter[i] = "{" /\ l <= Len(range_filter)
         THEN split_outside_braces(range_filter, l + 1, part \o SubSeq(range_filter, i, l))
         ELSE IF range_filter[i] = ","
         THEN <<part>> \o split_outside_braces(range_filter, i + 1, <<>>)
         ELSE split_outside_braces(range_filter, i + 1, part \o <<range_filter[i]>>)

\* A parser that drops the empty entries.
parse_part_skips_empty(part) ==
    IF Strip(part) = <<>> THEN <<>>
    ELSE <<ExactString(Strip(part))>>

\* One part of the split range_filter: the list of constraints it adds.
parse_part(part) ==
    LET p == Strip(part) IN
    IF p = <<>> THEN <<NoConstraint>>
    ELSE IF p = <<"{", "}">> THEN <<ExactString(<<>>)>>
    ELSE IF p[1] = "{" /\ p[Len(p)] = "}"
    THEN <<parse_single_constraint(SubSeq(p, 2, Len(p) - 1))>>
    ELSE <<ExactString(p)>>

RECURSIVE parse_parts(_)
parse_parts(parts) ==
    IF parts = <<>> THEN <<>> ELSE parse_part(parts[1]) \o parse_parts(Tail(parts))

parse_constraints(range_filter) ==
    IF Strip(range_filter) = <<>> THEN <<>>
    ELSE parse_parts(split_outside_braces(range_filter, 1, <<>>))

\* A constructor that leaves the count check to matches().
count_unchecked(range_filter, pattern) == FALSE

\* __post_init__: the counts of constraints and of '*' differ.
count_mismatch(range_filter, pattern) ==
    /\ Strip(range_filter) # <<>>
    /\ Len(parse_constraints(range_filter)) # CountStars(pattern)

\* fnmatch.translate(pattern) matched against text: '*' is any text, the
\* whole text has to match.
RECURSIVE fnmatch_match(_, _)
fnmatch_match(text, pattern) ==
    IF pattern = <<>> THEN text = <<>>
    ELSE IF pattern[1] = "*"
    THEN \E n \in 0..Len(text) : fnmatch_match(Tail_from(text, n + 1), Tail(pattern))
    ELSE text # <<>> /\ text[1] = pattern[1] /\ fnmatch_match(Tail(text), Tail(pattern))

\* The entries of the constraint lists, joined by commas.
Entries == { <<>>, <<" ">>, <<"{", "}">>, <<"{", "a", "}">>, <<"{", "1", "}">>, <<"a">>,
             <<"{", "1", "-", "1", "1", "}">>, <<"{", "1", ",", "a", "}">> }
RangeFilters == {Join(es, ",") : es \in UNION {[1..n -> Entries] : n \in 1..MaxEntries}}
StrategyPatterns == { <<"*">>, <<"*", "*">>, <<"*", "a", "*">>, <<"a", "*", ".", "*">> }

InitStrategy ==
    /\ CopyIdle
    /\ TemplateIdle
    /\ RegistryIdle
    /\ GroupingIdle
    /\ m_pattern \in StrategyPatterns
    /\ m_range_filter \in RangeFilters
    /\ strategy = "none"
    /\ m_constraints = <<>>
    /\ m_filename \in Filenames
    /\ matched = [done |-> FALSE, value |-> FALSE]

\* Strategy(StrategyType.WILDCARD, pattern, range_filter)
post_init ==
    /\ strategy = "none"
    /\ IF count_mismatch(m_range_filter, m_pattern)
       THEN strategy' = "rejected" /\ UNCHANGED m_constraints
       ELSE strategy' = "constructed" /\ m_constraints' = parse_constraints(m_range_filter)
    /\ UNCHANGED <<nonMatchVars, groupingVars, m_pattern, m_range_filter, m_filename, matched>>

\* Strategy.matches(filename)
call_strategy_matches ==
    /\ strategy = "constructed"
    /\ ~matched.done
    /\ IF Strip(m_range_filter) = <<>>
       THEN /\ matched' = [done |-> TRUE, value |-> fnmatch_match(m_filename, m_pattern)]
            /\ UNCHANGED strategy
       ELSE IF Len(parse_constraints(m_range_filter)) # CountStars(m_pattern)
       THEN /\ strategy' = "raised_at_match"
            /\ UNCHANGED matched
       ELSE /\ matched' = [done |-> TRUE,
                           value |-> matches(m_filename, m_pattern,
                                             parse_constraints(m_range_filter))]
            /\ UNCHANGED strategy
    /\ UNCHANGED <<nonMatchVars, groupingVars, m_pattern, m_range_filter, m_constraints, m_filename>>

NextStrategy ==
    \/ post_init
    \/ call_strategy_matches

SpecStrategy == InitStrategy /\ [][NextStrategy]_vars

\* The entries of a constraint list that are not blank.
NonEmptyPositions(range_filter) ==
    {k \in 1..Len(split_outside_braces(range_filter, 1, <<>>)) :
        Strip(split_outside_braces(range_filter, 1, <<>>)[k]) # <<>>}
Positions(range_filter) == 1..Len(split_outside_braces(range_filter, 1, <<>>))

\* C19 as stated: a wildcard strategy whose constraint list has a number of
\* non-empty positions different from its number of '*' is rejected when it
\* is constructed.
C19_NonEmptyPositionsChecked ==
    (strategy # "none" /\ Strip(m_range_filter) # <<>>
        /\ Cardinality(NonEmptyPositions(m_range_filter)) # CountStars(m_pattern))
        => strategy = "rejected"

\* C19: a wildcard strategy with a non-blank constraint list whose number of
\* positions, empty entries included, differs from its number of '*' is
\* rejected when it is constructed, and matches() never raises for the
\* count; every other strategy is constructed.
C19_PositionsCheckedAtConstruction ==
    /\ strategy # "raised_at_match"
    /\ strategy # "none" =>
          (strategy = "rejected" <=>
              /\ Strip(m_range_filter) # <<>>
              /\ Cardinality(Positions(m_range_filter)) # CountStars(m_pattern))
C19_Witness ==
    /\ strategy = "rejected"
    /\ m_pattern = <<"*", "a", "*">>
    /\ m_range_filter = <<"{", "a", "}">>

\* C20: an empty entry of a constraint list occupies a position and places
\* no constraint on its '*': the strategy is constructed when the positions
\* are as many as the '*', and it matches exactly the filenames for which
\* some captures, those of the non-empty entries satisfying their
\* constraints, make the pattern equal the filename.
C20_EmptyEntryIsFree ==
    (strategy # "none" /\ Strip(m_range_filter) # <<>>
        /\ Cardinality(Positions(m_range_filter)) = CountStars(m_pattern)
        /\ NonEmptyPositions(m_range_filter) # Positions(m_range_filter)) =>
        /\ strategy = "constructed"
        /\ \A k \in Positions(m_range_filter) \ NonEmptyPositions(m_range_filter) :
              m_constraints[k] = NoConstraint
        /\ matched.done =>
              (matched.value <=>
                  AssignmentExists(parse_wildcard_pattern(m_pattern, <<>>), m_constraints,
                                   m_filename))

\* ================================================================== registry
\* The names the registry and the orchestrator use, as strings.
S_filepath == <<"f","i","l","e","p","a","t","h">>
S_filename == <<"f","i","l","e","n","a","m","e">>
S_basename == <<"b","a","s","e","n","a","m","e">>
S_extension == <<"e","x","t","e","n","s","i","o","n">>
S_ext == <<"e","x","t">>
S_dirname == <<"d","i","r","n","a","m","e">>
S_filesize == <<"f","i","l","e","s","i","z","e">>
S_primary_group == <<"p","r","i","m","a","r","y","_","g","r","o","u","p">>
S_groups == <<"g","r","o","u","p","s">>
S_size_category == <<"s","i","z","e","_","c","a","t","e","g","o","r","y">>
S_file_date == <<"f","i","l","e","_","d","a","t","e">>
S_manual_grouping == <<"m","a","n","u","a","l","_","g","r","o","u","p","i","n","g">>
S_file_size_classifier == <<"f","i","l","e","_","s","i","z","e","_","c","l","a","s","s","i","f","i","e","r">>
S_file_date_read == <<"f","i","l","e","_","d","a","t","e","_","r","e","a","d">>
S_manual_group == <<"m","a","n","u","a","l","_","g","r","o","u","p">>
S_base_variables == <<"b","a","s","e","_","v","a","r","i","a","b","l","e","s">>
S_geo == <<"g","e","o">>
S_lat == <<"l","a","t">>
S_lon == <<"l","o","n">>
S_Others == <<"O","t","h","e","r","s">>
S_unknown == <<"u","n","k","n","o","w","n">>

\* The position of the last occurrence of character c in s, or 0.
LastIndex(s, c) ==
    IF \E i \in 1..Len(s) : s[i] = c
    THEN CHOOSE i \in 1..Len(s) : s[i] = c /\ \A j \in (i + 1)..Len(s) : s[j] # c
    ELSE 0

\* os.path.basename, os.path.dirname and os.path.splitext on a POSIX host.
os_path_basename(path) == Tail_from(path, LastIndex(path, "/") + 1)

RECURSIVE RStripSlash(_)
RStripSlash(s) ==
    IF s # <<>> /\ s[Len(s)] = "/" THEN RStripSlash(SubSeq(s, 1, Len(s) - 1)) ELSE s

os_path_dirname(path) ==
    LET head == SubSeq(path, 1, LastIndex(path, "/"))
    IN IF head # <<>> /\ (\E i \in 1..Len(head) : head[i] # "/") THEN RStripSlash(head) ELSE head

os_path_splitext(name) ==
    LET dot == LastIndex(name, ".")
    IN IF dot > 0 /\ (\E i \in 1..(dot - 1) : name[i] # ".")
       THEN <<SubSeq(name, 1, dot - 1), Tail_from(name, dot)>>
       ELSE <<name, <<>>>>

\* A file handed to execute: its (absolute, normalised) path, whether it
\* exists and its size.
extract_basic_file_info(file) ==
    LET name == os_path_basename(file.path)
        split == os_path_splitext(name)
        extension == split[2]
        ext == IF StartsWith(extension, <<".">>) THEN Tail(extension) ELSE extension
    IN (S_filepath :> StrV(file.path)) @@ (S_filename :> StrV(name))
       @@ (S_basename :> StrV(split[1])) @@ (S_extension :> StrV(extension))
       @@ (S_ext :> StrV(ext)) @@ (S_dirname :> StrV(os_path_dirname(file.path)))
       @@ (S_filesize :> IntV(IF file.exists THEN file.size ELSE 0))

\* dict.update: the entries of b override those of a.
DictUpdate(a, b) == b @@ a

\* self.available_variables after discovery: the built-in variables and,
\* per discovered plugin, the variables it declares.  geo is a plugin that
\* declares two variables.
AvailableVariables ==
    (S_base_variables :> {S_filename, S_basename, S_extension, S_ext})
    @@ (S_manual_grouping :> {S_manual_group})
    @@ (S_geo :> {S_lat, S_lon})

\* The discovered plugins: modules of the plugins directory.
PluginNames == {S_manual_grouping, S_geo}

\* The registry part of an Allocator as one value: the plugin dictionaries
\* (as their key sets) and, per plugin, how often its init and delete hooks
\* were called since its current load began.  init_failed collects, during
\* one call of the API, the plugins whose init hook raised in that call, and
\* import_failed those whose import raised.
Registry(lp, inf, exf, def, ref, ic, dc, pf, fd, sm, hm, if, imf) ==
    [loaded_plugins |-> lp, init_functions |-> inf, execute_functions |-> exf,
     delete_functions |-> def, reload_functions |-> ref, init_calls |-> ic, delete_calls |-> dc,
     plugin_files |-> pf, file_defect |-> fd, sys_modules |-> sm, hook_module |-> hm,
     init_failed |-> if, import_failed |-> imf]

\* What can be wrong with a plugin's file: nothing, executing it raises, or
\* it defines the hooks but no execute function.
FileDefects == {"none", "import_raises", "no_execute"}

\* An entry of sys.modules: absent, or the module object made from a version
\* of the plugin's file.
NoModule == [cached |-> FALSE, version |-> 0, defect |-> "none"]
Module(v, defect) == [cached |-> TRUE, version |-> v, defect |-> defect]

\* The import of a plugin's module by _load_single_plugin: the module object
\* sys.modules holds if there is one, else importlib.import_module, which
\* executes the file as it is and enters the module into sys.modules.
import_plugin_module(R, plugin_name) ==
    IF R.sys_modules[plugin_name].cached THEN R
    ELSE [R EXCEPT !.sys_modules[plugin_name] =
                       Module(R.plugin_files[plugin_name], R.file_defect[plugin_name])]

\* _load_single_plugin raises: nothing is imported and nothing registered.
import_raised(R, plugin_name) == [R EXCEPT !.import_failed = @ \cup {plugin_name}]

\* _register_plugin_functions registers the hooks it finds; a module without
\* an execute function does not get into loaded_plugins.
register_hooks_only(R, plugin_name) ==
    [R EXCEPT !.hook_module[plugin_name] = R.sys_modules[plugin_name].version,
              !.init_functions = @ \cup {plugin_name},
              !.delete_functions = @ \cup {plugin_name},
              !.reload_functions = @ \cup {plugin_name},
              !.init_calls[plugin_name] = 0,
              !.delete_calls[plugin_name] = 0]

\* _load_single_plugin and _register_plugin_functions: a discovered plugin
\* has init, delete and reload hooks and, unless its file is defective, an
\* execute function.  The built-in "base_variables" is no module: the import
\* raises, which every caller swallows.
load_single_plugin(R, plugin_name) ==
    IF plugin_name \notin PluginNames THEN R
    ELSE IF ~R.sys_modules[plugin_name].cached /\ R.file_defect[plugin_name] = "import_raises"
    THEN import_raised(R, plugin_name)
    ELSE LET R0 == import_plugin_module(R, plugin_name)
         IN  IF R0.sys_modules[plugin_name].defect = "no_execute"
             THEN register_hooks_only(R0, plugin_name)
             ELSE
             [R0 EXCEPT !.loaded_plugins = @ \cup {plugin_name},
                   !.hook_module[plugin_name] = R0.sys_modules[plugin_name].version,
                   !.init_functions = @ \cup {plugin_name},
                   !.execute_functions = @ \cup {plugin_name},
                   !.delete_functions = @ \cup {plugin_name},
                   !.reload_functions = @ \cup {plugin_name},
                   !.init_calls[plugin_name] = 0,
                   !.delete_calls[plugin_name] = 0]

call_init(R, plugin_name) == [R EXCEPT !.init_calls[plugin_name] = @ + 1]
call_delete(R, plugin_name) == [R EXCEPT !.delete_calls[plugin_name] = @ + 1]

\* A handler of a raising init hook that takes the plugin out of the
\* dictionaries.
init_raised_unloads(R, plugin_name) ==
    [R EXCEPT !.loaded_plugins = @ \ {plugin_name},
              !.execute_functions = @ \ {plugin_name},
              !.init_functions = @ \ {plugin_name},
              !.delete_functions = @ \ {plugin_name},
              !.init_failed = @ \cup {plugin_name}]

\* The handlers of a raising init hook (`except Exception: pass` and
\* `return False`): the plugin stays as _load_single_plugin registered it.
init_raised(R, plugin_name) == [R EXCEPT !.init_failed = @ \cup {plugin_name}]

\* A call of the init hook of a plugin inside its try block.
init_hook(R, plugin_name, bad_init) ==
    IF plugin_name \in bad_init THEN init_raised(call_init(R, plugin_name), plugin_name)
    ELSE call_init(R, plugin_name)

\* A loop body outside the try block: after a plugin's load or init hook has
\* raised, the remaining plugins are not loaded.
load_one_unprotected(R, plugin_name, bad_init) ==
    IF R.import_failed # {} \/ R.init_failed # {} THEN R
    ELSE IF plugin_name \in R.loaded_plugins THEN R
    ELSE LET R1 == load_single_plugin(R, plugin_name)
         IN IF plugin_name \in R1.import_failed THEN R1
            ELSE IF plugin_name \in R1.init_functions
            THEN init_hook(R1, plugin_name, bad_init)
            ELSE R1

\* The body of the loop of _load_plugins_for_variables for one plugin; the
\* init hooks of the plugins in bad_init raise.
load_one_for_variables(R, plugin_name, bad_init) ==
    IF plugin_name \in R.loaded_plugins THEN R
    ELSE LET R1 == load_single_plugin(R, plugin_name)
         IN IF plugin_name \in R1.import_failed THEN R1
            ELSE IF plugin_name \in R1.init_functions
            THEN init_hook(R1, plugin_name, bad_init)
            ELSE R1

\* Removal of a plugin from the dictionaries, as _unload_plugins_for_variables
\* does it: reload_functions keeps its entry.
unload_drop(R, plugin_name) ==
    [R EXCEPT !.loaded_plugins = @ \ {plugin_name},
              !.execute_functions = @ \ {plugin_name},
              !.init_functions = @ \ {plugin_name},
              !.delete_functions = @ \ {plugin_name},
              !.hook_module[plugin_name] = 0]

\* The body of the loop of _unload_plugins_for_variables for one plugin; the
\* delete hooks of the plugins in bad raise, which skips the removal.
unload_one_for_variables(R, plugin_name, bad) ==
    IF plugin_name \notin R.loaded_plugins THEN R
    ELSE LET R1 == IF plugin_name \in R.delete_functions THEN call_delete(R, plugin_name) ELSE R
         IN IF plugin_name \in R.delete_functions /\ plugin_name \in bad THEN R1
            ELSE unload_drop(R1, plugin_name)

\* The plugins that declare one of the variables.
plugins_for(vs) ==
    {plugin_name \in DOMAIN AvailableVariables : AvailableVariables[plugin_name] \cap vs # {}}

\* A loop `for plugin_name in plugins: R = step(R, plugin_name)` over a set.
RECURSIVE load_each(_, _, _)
load_each(R, plugins, bad_init) ==
    IF plugins = {} THEN R
    ELSE LET plugin_name == CHOOSE x \in plugins : TRUE
         IN load_each(load_one_for_variables(R, plugin_name, bad_init),
                      plugins \ {plugin_name}, bad_init)

RECURSIVE unload_each(_, _, _)
unload_each(R, plugins, bad) ==
    IF plugins = {} THEN R
    ELSE LET plugin_name == CHOOSE x \in plugins : TRUE
         IN unload_each(unload_one_for_variables(R, plugin_name, bad), plugins \ {plugin_name}, bad)

load_plugins_for_variables(R, vs, bad_init) == load_each(R, plugins_for(vs), bad_init)

\* A plugin is still needed when another variable of the active set (the
\* set of the template being replaced) is one of its variables.
still_needed(plugin_name, variable, active) ==
    \E other_var \in active :
        other_var # variable /\ other_var \in AvailableVariables[plugin_name]

plugins_to_unload(vs, active) ==
    {plugin_name \in DOMAIN AvailableVariables :
        \E variable \in vs \cap AvailableVariables[plugin_name] :
            ~still_needed(plugin_name, variable, active)}

unload_plugins_for_variables(R, vs, active, bad) ==
    unload_each(R, plugins_to_unload(vs, active), bad)

\* The registry of the Allocator, as one value.
Reg == Registry(loaded_plugins, init_functions, execute_functions, delete_functions,
                reload_functions, init_calls, delete_calls, plugin_files, file_defect,
                sys_modules, hook_module, {}, {})

\* The hook-call counters stay within the bound of the model.
WithinCalls(R) ==
    \A plugin_name \in PluginNames :
        R.init_calls[plugin_name] <= MaxCalls /\ R.delete_calls[plugin_name] <= MaxCalls

\* The assignment self.<dictionaries> := R.
SetDicts(R) ==
    /\ WithinCalls(R)
    /\ loaded_plugins' = R.loaded_plugins
    /\ init_functions' = R.init_functions
    /\ execute_functions' = R.execute_functions
    /\ delete_functions' = R.delete_functions
    /\ reload_functions' = R.reload_functions
    /\ init_calls' = R.init_calls
    /\ delete_calls' = R.delete_calls
    /\ plugin_files' = R.plugin_files
    /\ file_defect' = R.file_defect
    /\ sys_modules' = R.sys_modules
    /\ hook_module' = R.hook_module

\* The same where the catalog of discovery is not touched: nothing in
\* src/module/allocator.py assigns to it after construction.
SetReg(R) ==
    /\ SetDicts(R)
    /\ UNCHANGED available_variables

\* _execute_init_functions: every registered init hook once.
RECURSIVE execute_init_functions(_, _, _)
execute_init_functions(R, plugins, bad_init) ==
    IF plugins = {} THEN R
    ELSE LET plugin_name == CHOOSE x \in plugins : TRUE
         IN execute_init_functions(init_hook(R, plugin_name, bad_init),
                                   plugins \ {plugin_name}, bad_init)

\* _load_plugins: every module of the plugins directory.
RECURSIVE load_plugins(_, _)
load_plugins(R, plugins) ==
    IF plugins = {} THEN R
    ELSE LET plugin_name == CHOOSE x \in plugins : TRUE
         IN load_plugins(load_single_plugin(R, plugin_name), plugins \ {plugin_name})

EmptyRegistry ==
    Registry({}, {}, {}, {}, {}, [x \in PluginNames |-> 0], [x \in PluginNames |-> 0],
             [x \in PluginNames |-> 0], [x \in PluginNames |-> "none"],
             [x \in PluginNames |-> NoModule], [x \in PluginNames |-> 0], {}, {})

\* Allocator.__init__
ConstructedWith(bad_init) ==
    LET R1 == load_plugins(EmptyRegistry, PluginNames)
    IN execute_init_functions(R1, R1.init_functions, bad_init)

\* An Allocator constructed with plugins whose init hooks return.
Constructed == ConstructedWith({})

\* self.__dest_dir of the Allocator.
target_folder == <<"/", "o">>

\* The templates handed to update_template and execute.
RegTemplates == { <<"{","m","a","n","u","a","l","_","g","r","o","u","p","}","/","{","b","a","s","e","n","a","m","e","}">>,
                  <<"{","l","a","t","}","/","{","l","o","n","}">>,
                  <<"{","l","a","t","}">>,
                  <<"{","m","a","n","u","a","l","_","g","r","o","u","p",":","x","}">>,
                  <<"{","b","a","s","e","n","a","m","e","}">> }

\* The temporary templates handed to execute.
ExecTemplates == { <<"{","l","a","t","}","/","{","p","r","i","m","a","r","y","_","g","r","o","u","p","}">>,
                   <<"{","m","a","n","u","a","l","_","g","r","o","u","p","i","n","g","[","0","]","}","/","{","g","e","o","}">> }

\* The registry is R.
RegIs(R) ==
    /\ loaded_plugins = R.loaded_plugins
    /\ init_functions = R.init_functions
    /\ execute_functions = R.execute_functions
    /\ delete_functions = R.delete_functions
    /\ reload_functions = R.reload_functions
    /\ init_calls = R.init_calls
    /\ delete_calls = R.delete_calls
    /\ plugin_files = R.plugin_files
    /\ file_defect = R.file_defect
    /\ sys_modules = R.sys_modules
    /\ hook_module = R.hook_module
    /\ available_variables = DOMAIN AvailableVariables

InitRegistry ==
    /\ CopyIdle
    /\ TemplateIdle
    /\ MatchIdle
    /\ RegIs(Constructed)
    /\ active_variables = {}
    /\ current_template = <<>>
    /\ last = NoCall

\* The variables whose plugins update_template unloads and loads.
variables_to_unload_all(old_variables, new_variables) == old_variables

variables_to_unload(old_variables, new_variables) == old_variables \ new_variables
variables_to_load(old_variables, new_variables) == new_variables \ old_variables

\* The registry update_template(tpl) leaves, from registry R, the current
\* template cur and the active variables active; the delete hooks of the
\* plugins in bad raise.
update_template_registry(R, cur, active, tpl, bad, bad_init) ==
    LET old_variables == IF cur # <<>> THEN parse_template_variables(cur) ELSE {}
        new_variables == parse_template_variables(tpl)
        R1 == unload_plugins_for_variables(R, variables_to_unload(old_variables, new_variables),
                                           active, bad)
    IN load_plugins_for_variables(R1, variables_to_load(old_variables, new_variables), bad_init)

\* update_template(template)
update_template(tpl, bad, bad_init) ==
    \E R \in {update_template_registry(Reg, current_template, active_variables, tpl, bad,
                                        bad_init)} :
       /\ SetReg(R)
       /\ current_template' = tpl
       /\ active_variables' = parse_template_variables(tpl)
       /\ last' = [NoCall EXCEPT !.op = "update_template", !.same = (tpl = current_template),
                                 !.init_raised = R.init_failed]

call_update_template ==
    /\ \E tpl \in RegTemplates, bad \in SUBSET PluginNames : update_template(tpl, bad, {})
    /\ UNCHANGED <<copyVars, tplVars, matchVars>>

\* cleanup(): every registered delete hook, whatever it raises; nothing is
\* unregistered.
RECURSIVE cleanup_each(_, _)
cleanup_each(R, plugins) ==
    IF plugins = {} THEN R
    ELSE LET plugin_name == CHOOSE x \in plugins : TRUE
         IN cleanup_each(call_delete(R, plugin_name), plugins \ {plugin_name})

cleanup ==
    /\ \E R \in {cleanup_each(Reg, delete_functions)} : SetReg(R)
    /\ last' = [NoCall EXCEPT !.op = "cleanup"]
    /\ UNCHANGED <<active_variables, current_template>>

call_cleanup ==
    /\ cleanup
    /\ UNCHANGED <<copyVars, tplVars, matchVars>>

\* __del__: cleanup() inside try/except; the object is gone afterwards.
call_del ==
    /\ last.op # "__del__"
    /\ \E R \in {cleanup_each(Reg, delete_functions)} : SetReg(R)
    /\ last' = [NoCall EXCEPT !.op = "__del__"]
    /\ UNCHANGED <<active_variables, current_template>>
    /\ UNCHANGED <<copyVars, tplVars, matchVars>>

\* The life of an Allocator: templates are set, cleanup() is called any
\* number of times, and the destructor runs last.
NextCleanup ==
    \/ last.op # "__del__" /\ call_update_template
    \/ last.op # "__del__" /\ call_cleanup
    \/ call_del

SpecCleanup == InitRegistry /\ [][NextCleanup]_vars

\* C23: a call of cleanup() after cleanup() has run, the destructor's call
\* included, has no further effect: no delete hook is invoked again.
C23_CleanupIsIdempotent ==
    [][(last.op = "cleanup" /\ last'.op \in {"cleanup", "__del__"}) =>
          delete_calls' = delete_calls]_vars

\* Removal of a plugin from the dictionaries, as reload_plugin does it.
reload_drop(R, plugin_name) ==
    [R EXCEPT !.loaded_plugins = @ \ {plugin_name},
              !.execute_functions = @ \ {plugin_name},
              !.init_functions = @ \ {plugin_name},
              !.delete_functions = @ \ {plugin_name},
              !.reload_functions = @ \ {plugin_name},
              !.hook_module[plugin_name] = 0]

\* The name under which a plugin's module is entered in sys.modules.
ModulePath(plugin_name) ==
    <<"m","o","d","u","l","e",".","d","i","r","e","c","t","o","r","y","_","t","o","o","l","s",".">>
    \o plugin_name

\* `sub in s` for strings.
Contains(s, sub) ==
    \E i \in 1..(Len(s) - Len(sub) + 1) : SubSeq(s, i, i + Len(sub) - 1) = sub

\* reload_plugin keeps sys.modules as it is.
purge_nothing(R, plugin_name) == R

\* reload_plugin removes from sys.modules every module whose name contains
\* the plugin's name.
purge_sys_modules(R, plugin_name) ==
    [R EXCEPT !.sys_modules =
        [q \in PluginNames |-> IF Contains(ModulePath(q), plugin_name) THEN NoModule
                               ELSE R.sys_modules[q]]]

\* A call of a hook, of the module made from a version of the plugin's file.
HookCall(hook, version) == [hook |-> hook, version |-> version]

\* reload_plugin(plugin_name): the new registry, the returned bool and the
\* hooks called, in order.  The hooks named in bad_delete, bad_init and
\* bad_reload raise.  The plugin's file is still where discovery found it.
reload_plugin(R, plugin_name, bad_delete, bad_init, bad_reload) ==
    LET was_loaded == plugin_name \in R.loaded_plugins
        deletes == was_loaded /\ plugin_name \in R.delete_functions
        R1 == IF deletes THEN call_delete(R, plugin_name) ELSE R
        log1 == IF deletes THEN <<HookCall("delete", R.hook_module[plugin_name])>> ELSE <<>>
    IN IF deletes /\ plugin_name \in bad_delete THEN [reg |-> R1, ok |-> FALSE, log |-> log1]
       ELSE LET R2 == IF was_loaded THEN reload_drop(R1, plugin_name) ELSE R1
            IN IF plugin_name \notin PluginNames THEN [reg |-> R2, ok |-> FALSE, log |-> log1]
               ELSE LET R3 == load_single_plugin(purge_sys_modules(R2, plugin_name), plugin_name)
                        R4 == init_hook(R3, plugin_name, bad_init)
                        log2 == log1 \o <<HookCall("init", R3.hook_module[plugin_name])>>
                    IN IF plugin_name \in R3.import_failed
                       THEN [reg |-> R3, ok |-> FALSE, log |-> log1]
                       ELSE IF plugin_name \in bad_init THEN [reg |-> R4, ok |-> FALSE, log |-> log2]
                       ELSE [reg |-> R4, ok |-> plugin_name \notin bad_reload,
                             log |-> log2 \o <<HookCall("reload", R3.hook_module[plugin_name])>>]

call_reload_plugin ==
    /\ \E plugin_name \in PluginNames \cup {S_base_variables, S_unknown},
          bad_delete \in BOOLEAN, bad_init \in BOOLEAN, bad_reload \in BOOLEAN :
          \E r \in {reload_plugin(Reg, plugin_name,
                                  IF bad_delete THEN {plugin_name} ELSE {},
                                  IF bad_init THEN {plugin_name} ELSE {},
                                  IF bad_reload THEN {plugin_name} ELSE {})} :
             /\ SetReg(r.reg)
             /\ last' = [NoCall EXCEPT !.op = "reload_plugin", !.ok = r.ok,
                                       !.name = plugin_name, !.log = r.log,
                                       !.init_raised = r.reg.init_failed,
                                       !.import_failed = r.reg.import_failed,
                                       !.was_loaded = plugin_name \in loaded_plugins]
    /\ UNCHANGED <<active_variables, current_template>>
    /\ UNCHANGED <<copyVars, tplVars, matchVars>>

\* The plugin's file in the plugins directory is edited.
edit_plugin_file ==
    /\ \E plugin_name \in PluginNames :
          /\ plugin_files[plugin_name] < MaxVersion
          /\ \E R \in {[Reg EXCEPT !.plugin_files[plugin_name] = @ + 1]} : SetReg(R)
          /\ last' = [NoCall EXCEPT !.op = "edit", !.name = plugin_name]
    /\ UNCHANGED <<active_variables, current_template>>
    /\ UNCHANGED <<copyVars, tplVars, matchVars>>

\* The plugin's file is replaced by one that raises when executed, by one
\* without an execute function, or by a complete one.
break_plugin_file ==
    /\ \E plugin_name \in PluginNames, defect \in FileDefects :
          /\ defect # file_defect[plugin_name]
          /\ \E R \in {[Reg EXCEPT !.file_defect[plugin_name] = defect]} : SetReg(R)
          /\ last' = [NoCall EXCEPT !.op = "edit", !.name = plugin_name]
    /\ UNCHANGED <<active_variables, current_template>>
    /\ UNCHANGED <<copyVars, tplVars, matchVars>>

\* Plugins are reloaded while their files change.
NextDefects ==
    \/ call_reload_plugin
    \/ break_plugin_file

SpecDefects == InitRegistry /\ [][NextDefects]_vars

\* C29: whenever reload_plugin(name) returns True the plugin is in the
\* loaded set with an execute function registered; when the fresh load
\* fails or yields no execute function the call returns False.
C29_ReloadTrueMeansLoaded ==
    last.op = "reload_plugin" =>
        /\ last.ok => (last.name \in loaded_plugins /\ last.name \in execute_functions)
        /\ (last.name \in PluginNames /\ file_defect[last.name] # "none") => ~last.ok

\* The templates set while plugin files are defective.
FaultTemplates == { <<"{","l","a","t","}","/","{","m","a","n","u","a","l","_","g","r","o","u","p","}">>,
                    <<"{","l","o","n","}">>,
                    <<"{","b","a","s","e","n","a","m","e","}">> }

\* The plugins whose delete hook raises in update_template(tpl).
delete_raised_in(tpl, bad) ==
    LET old_variables == IF current_template # <<>>
                         THEN parse_template_variables(current_template) ELSE {}
        new_variables == parse_template_variables(tpl)
    IN plugins_to_unload(variables_to_unload(old_variables, new_variables), active_variables)
           \cap loaded_plugins \cap delete_functions \cap bad

\* update_template(template) with plugins whose file is defective and
\* plugins whose delete or init hooks raise.
call_update_template_faults ==
    /\ \E tpl \in FaultTemplates, bad \in SUBSET PluginNames, bad_init \in SUBSET PluginNames :
          \E R \in {update_template_registry(Reg, current_template, active_variables, tpl, bad,
                                              bad_init)} :
             /\ SetReg(R)
             /\ current_template' = tpl
             /\ active_variables' = parse_template_variables(tpl)
             /\ last' = [NoCall EXCEPT !.op = "update_template", !.tpl = tpl,
                                       !.init_raised = R.init_failed,
                                       !.import_failed = R.import_failed,
                                       !.delete_raised = delete_raised_in(tpl, bad),
                                       !.before = loaded_plugins,
                                       !.old_template = current_template,
                                       !.old_active = active_variables]
    /\ UNCHANGED <<copyVars, tplVars, matchVars>>

\* reload_plugin(plugin_name) of a discovered plugin whose hooks return.
call_reload_plugin_hooks_return ==
    /\ \E plugin_name \in PluginNames :
          \E r \in {reload_plugin(Reg, plugin_name, {}, {}, {})} :
             /\ SetReg(r.reg)
             /\ last' = [NoCall EXCEPT !.op = "reload_plugin", !.ok = r.ok,
                                       !.name = plugin_name,
                                       !.import_failed = r.reg.import_failed,
                                       !.was_loaded = plugin_name \in loaded_plugins]
    /\ UNCHANGED <<active_variables, current_template>>
    /\ UNCHANGED <<copyVars, tplVars, matchVars>>

\* Templates are set while plugin files break and plugins are reloaded.
NextFaults ==
    \/ call_update_template_faults
    \/ call_reload_plugin_hooks_return
    \/ break_plugin_file

SpecFaults == InitRegistry /\ [][NextFaults]_vars

webui_unload_plugin(W, plugin_name, bad) ==
    IF plugin_name \notin W.reg.loaded_plugins THEN [reg |-> W.reg, av |-> W.av, ok |-> FALSE]
    ELSE LET deletes == plugin_name \in W.reg.delete_functions
             R1 == IF deletes THEN call_delete(W.reg, plugin_name) ELSE W.reg
         IN IF deletes /\ plugin_name \in bad THEN [reg |-> R1, av |-> W.av, ok |-> FALSE]
            ELSE [reg |-> [R1 EXCEPT !.loaded_plugins = @ \ {plugin_name},
                                      !.init_functions = @ \ {plugin_name},
                                      !.execute_functions = @ \ {plugin_name},
                                      !.delete_functions = @ \ {plugin_name},
                                      !.reload_functions = @ \ {plugin_name},
                                      !.hook_module[plugin_name] = 0,
                                      !.sys_modules[plugin_name] = NoModule],
                  av |-> W.av \ {plugin_name},
                  ok |-> TRUE]

\* _load_single_plugin(plugin_name, plugin_path): a loaded plugin is unloaded
\* first; the module is the one discovery cached in self.discovered_modules;
\* whatever is raised is swallowed.
webui_load_single_plugin(W, plugin_name, bad) ==
    LET W1 == IF plugin_name \in W.reg.loaded_plugins
              THEN webui_unload_plugin(W, plugin_name, bad) ELSE W
    IN [reg |-> [W1.reg EXCEPT !.loaded_plugins = @ \cup {plugin_name},
                               !.init_functions = @ \cup {plugin_name},
                               !.execute_functions = @ \cup {plugin_name},
                               !.delete_functions = @ \cup {plugin_name},
                               !.reload_functions = @ \cup {plugin_name},
                               !.hook_module[plugin_name] = W1.reg.plugin_files[plugin_name],
                               !.init_calls[plugin_name] = 0,
                               !.delete_calls[plugin_name] = 0],
        av |-> W1.av]

\* reload_plugin(plugin_name): the plugin's file is where it was loaded from.
webui_reload_plugin(W, plugin_name, bad, bad_init) ==
    IF plugin_name \notin W.reg.loaded_plugins THEN [reg |-> W.reg, av |-> W.av, ok |-> FALSE]
    ELSE LET W1 == webui_unload_plugin(W, plugin_name, bad)
         IN IF ~W1.ok THEN [reg |-> W1.reg, av |-> W1.av, ok |-> FALSE]
            ELSE LET W2 == webui_load_single_plugin(W1, plugin_name, bad)
                 IN [reg |-> init_hook(W2.reg, plugin_name, bad_init), av |-> W2.av,
                     ok |-> plugin_name \notin bad_init]

\* The plugins of the catalog that declare one of the variables.
webui_plugins_for(av, vs) ==
    {plugin_name \in av : AvailableVariables[plugin_name] \cap vs # {}}

\* The body of the loop of _load_plugins_for_variables for one plugin.
webui_load_one(W, plugin_name, bad_init) ==
    IF plugin_name \in W.reg.loaded_plugins THEN W
    ELSE LET W1 == webui_load_single_plugin(W, plugin_name, {})
         IN [reg |-> init_hook(W1.reg, plugin_name, bad_init), av |-> W1.av]

RECURSIVE webui_load_each(_, _, _)
webui_load_each(W, plugins, bad_init) ==
    IF plugins = {} THEN W
    ELSE LET plugin_name == CHOOSE x \in plugins : TRUE
         IN webui_load_each(webui_load_one(W, plugin_name, bad_init),
                            plugins \ {plugin_name}, bad_init)

\* _load_plugins_for_variables: "base_variables" is skipped.
webui_load_plugins_for_variables(W, vs, bad_init) ==
    webui_load_each(W, webui_plugins_for(W.av, vs) \ {S_base_variables}, bad_init)

\* The plugins _unload_plugins_for_variables collects from the catalog.
webui_plugins_to_unload(av, vs, active) ==
    {plugin_name \in av :
        \E variable \in vs \cap AvailableVariables[plugin_name] :
            ~still_needed(plugin_name, variable, active)}

\* _unload_plugins_for_variables: the loop body is that of the other
\* Allocator.
webui_unload_plugins_for_variables(W, vs, active, bad) ==
    [reg |-> unload_each(W.reg, webui_plugins_to_unload(W.av, vs, active), bad), av |-> W.av]

\* update_template(template)
webui_update_template(W, cur, active, tpl, bad, bad_init) ==
    LET old_variables == IF cur # <<>> THEN parse_template_variables(cur) ELSE {}
        new_variables == parse_template_variables(tpl)
        W1 == webui_unload_plugins_for_variables(W, old_variables \ new_variables, active, bad)
    IN webui_load_plugins_for_variables(W1, new_variables \ old_variables, bad_init)

\* The state of the Allocator, as one value.
WebUI == [reg |-> Reg, av |-> available_variables]

\* The assignment of such a value to the Allocator.
SetWebUI(W) ==
    /\ SetDicts(W.reg)
    /\ available_variables' = W.av

call_webui_unload_plugin ==
    /\ \E plugin_name \in PluginNames \cup {S_unknown}, bad \in SUBSET PluginNames :
          \E W \in {webui_unload_plugin(WebUI, plugin_name, bad)} :
             /\ SetWebUI(W)
             /\ last' = [NoCall EXCEPT !.op = "unload_plugin", !.ok = W.ok,
                                       !.name = plugin_name,
                                       !.was_loaded = plugin_name \in loaded_plugins]
    /\ UNCHANGED <<active_variables, current_template>>
    /\ UNCHANGED <<copyVars, tplVars, matchVars>>

call_webui_reload_plugin ==
    /\ \E plugin_name \in PluginNames \cup {S_unknown}, bad \in SUBSET PluginNames,
          bad_init \in SUBSET PluginNames :
          \E W \in {webui_reload_plugin(WebUI, plugin_name, bad, bad_init)} :
             /\ SetWebUI(W)
             /\ last' = [NoCall EXCEPT !.op = "reload_plugin", !.ok = W.ok,
                                       !.name = plugin_name,
                                       !.was_loaded = plugin_name \in loaded_plugins]
    /\ UNCHANGED <<active_variables, current_template>>
    /\ UNCHANGED <<copyVars, tplVars, matchVars>>

call_webui_update_template ==
    /\ \E tpl \in FaultTemplates, bad \in SUBSET PluginNames, bad_init \in SUBSET PluginNames :
          \E W \in {webui_update_template(WebUI, current_template, active_variables, tpl,
                                          bad, bad_init)} :
             /\ SetWebUI(W)
             /\ current_template' = tpl
             /\ active_variables' = parse_template_variables(tpl)
             /\ last' = [NoCall EXCEPT !.op = "update_template", !.tpl = tpl,
                                       !.before = loaded_plugins,
                                       !.old_template = current_template]
    /\ UNCHANGED <<copyVars, tplVars, matchVars>>

\* Plugins are unloaded and reloaded one by one between template changes.
NextCatalog ==
    \/ call_webui_unload_plugin
    \/ call_webui_reload_plugin
    \/ call_webui_update_template

SpecCatalog == InitRegistry /\ [][NextCatalog]_vars

\* C30: after any sequence of unload_plugin, reload_plugin and
\* update_template the catalog of discovery is what it was, every loaded
\* plugin has its catalog entry, and after update_template(T) every
\* discovered plugin that declares a variable T newly references is loaded.
C30_CatalogUnchanged ==
    /\ available_variables = DOMAIN AvailableVariables
    /\ loaded_plugins \subseteq available_variables
    /\ last.op = "update_template" =>
          LET old_variables == IF last.old_template # <<>>
                               THEN parse_template_variables(last.old_template) ELSE {}
              new_variables == parse_template_variables(last.tpl)
          IN \A plugin_name \in PluginNames :
                AvailableVariables[plugin_name] \cap (new_variables \ old_variables) # {}
                    => plugin_name \in loaded_plugins

\* What each plugin's execute function returns for a file when it returns a
\* value: a list of groups, a date, a position.
PluginValue(plugin_name) ==
    CASE plugin_name = S_manual_grouping -> ListV(<< <<"G">> >>)
      [] OTHER -> StrV(<<"e">>)

\* A variant of the handler that records nothing for the failing plugin.
analyze_skip(res, plugin_name) == res

\* analyze_file's handler of an exception of a plugin: the plugin's entry is
\* None.
analyze_except(res, plugin_name) == DictUpdate(res, plugin_name :> NoneV)

\* The loop of analyze_file over execute_functions: beh tells, per plugin,
\* whether its execute returns a value ("ok"), returns None ("none") or
\* raises ("raise").
RECURSIVE analyze_each(_, _, _)
analyze_each(res, plugins, beh) ==
    IF plugins = {} THEN res
    ELSE LET plugin_name == CHOOSE x \in plugins : TRUE
             next == CASE beh[plugin_name] = "ok" ->
                             DictUpdate(res, plugin_name :> PluginValue(plugin_name))
                       [] beh[plugin_name] = "none" -> res
                       [] OTHER -> analyze_except(res, plugin_name)
         IN analyze_each(next, plugins \ {plugin_name}, beh)

\* analyze_file for a file that exists.
analyze_file(R, file, beh) ==
    analyze_each(extract_basic_file_info(file), R.execute_functions, beh)

\* dict.get(key, default)
DictGet(d, key, default) == IF key \in DOMAIN d THEN d[key] ELSE default

\* The variable environment execute builds from the analysis result.
all_variables(file, analysis_result) ==
    LET groups == DictGet(analysis_result, S_manual_grouping, ListV(<<>>))
        primary_group == IF Truthy(groups) THEN StrV(groups.v[1]) ELSE StrV(S_Others)
    IN DictUpdate(DictUpdate(extract_basic_file_info(file), analysis_result),
           (S_primary_group :> primary_group) @@ (S_groups :> groups)
           @@ (S_size_category :> DictGet(analysis_result, S_file_size_classifier, StrV(S_unknown)))
           @@ (S_file_date :> DictGet(analysis_result, S_file_date_read, StrV(<<>>)))
           @@ (S_manual_grouping :> groups))

\* analyze_file raises FileNotFoundError for a file that does not exist.
analyze_raises(file) == ~file.exists

\* execute(filepath, target_template) from registry R with current template
\* cur: the registry it leaves, whether it raised, and the returned path with
\* the environment it was rendered from.  given is FALSE when target_template
\* is None.
execute_call(R, cur, file, given, target_template, beh) ==
    LET tpl == IF given THEN target_template ELSE cur
        R1 == IF tpl # cur
              THEN load_plugins_for_variables(R, parse_template_variables(tpl), {})
              ELSE R
        raised == analyze_raises(file)
        env == IF raised THEN <<>> ELSE all_variables(file, analyze_file(R1, file, beh))
    IN [reg |-> R1, raised |-> raised, tpl |-> tpl, env |-> env,
        path |-> IF raised THEN <<>> ELSE resolve_template_variables(tpl, env, target_folder),
        beh |-> IF raised THEN <<>> ELSE [x \in R1.execute_functions |-> beh[x]]]

\* execute(filepath, target_template) on the Allocator.
execute(file, given, target_template, beh) ==
    \E c \in {execute_call(Reg, current_template, file, given, target_template, beh)} :
       /\ SetReg(c.reg)
       /\ UNCHANGED <<active_variables, current_template>>
       /\ last' = [NoCall EXCEPT !.op = "execute", !.raised = c.raised, !.ok = ~c.raised,
                                 !.path = c.path, !.env = c.env, !.beh = c.beh,
                                 !.file_exists = file.exists, !.tpl = c.tpl]

Behaviours == [PluginNames -> {"ok", "none", "raise"}]

\* The files handed to execute: /s/r.p exists, /s/n does not.
Files == { [path |-> <<"/","s","/","r",".","p">>, exists |-> TRUE, size |-> 3],
           [path |-> <<"/","s","/","n">>, exists |-> FALSE, size |-> 0] }

call_execute ==
    /\ \E file \in Files, beh \in Behaviours :
          \/ execute(file, FALSE, <<>>, beh)
          \/ \E tpl \in ExecTemplates : execute(file, TRUE, tpl, beh)
    /\ UNCHANGED <<copyVars, tplVars, matchVars>>

NextRegistry ==
    \/ call_update_template
    \/ call_execute
    \/ call_reload_plugin
    \/ call_cleanup

SpecRegistry == InitRegistry /\ [][NextRegistry]_vars

\* ------------------------------------------------------------------ claims
\* The discovered plugins that declare a variable referenced by a template.
PluginsReferencedBy(tpl) ==
    {plugin_name \in PluginNames : AvailableVariables[plugin_name] \cap TokenNames(tpl) # {}}

\* C3: once update_template(T) has returned, the loaded plugins are exactly
\* the discovered plugins that declare a variable referenced by T.
C3_LoadedIsExactlyReferenced ==
    last.op = "update_template" => loaded_plugins = PluginsReferencedBy(current_template)

\* C4: for every period during which a plugin is loaded its init hook is
\* called exactly once, when the period begins, and its delete hook exactly
\* once, when the period ends.  Hence, at every moment, a plugin's init
\* calls are its completed periods plus the open one, and its delete calls
\* are its completed periods: a loaded plugin has seen one more init than
\* delete, an unloaded one as many.
C4_HooksOncePerLoad ==
    \A plugin_name \in PluginNames :
        init_calls[plugin_name] =
            delete_calls[plugin_name] + (IF plugin_name \in loaded_plugins THEN 1 ELSE 0)

\* C9: when execute analyses an existing file, it returns a path; every
\* plugin whose execute raised has None under its name in the environment,
\* and every plugin that returned a value has that value there.
C9_RaisingPluginYieldsNull ==
    (last.op = "execute" /\ last.file_exists) =>
        /\ ~last.raised
        /\ StartsWith(last.path, target_folder)
        /\ \A plugin_name \in DOMAIN last.beh :
              /\ last.beh[plugin_name] = "raise" =>
                    (plugin_name \in DOMAIN last.env /\ last.env[plugin_name] = NoneV)
              /\ last.beh[plugin_name] = "ok" =>
                    (plugin_name \in DOMAIN last.env
                     /\ last.env[plugin_name] = PluginValue(plugin_name))

\* C9 witness: execute returned while one plugin raised and another returned
\* its value.
C9_Witness ==
    /\ last.op = "execute"
    /\ ~last.raised
    /\ \E plugin_name, other \in DOMAIN last.beh :
          /\ last.beh[plugin_name] = "raise"
          /\ last.beh[other] = "ok"
          /\ last.env[plugin_name] = NoneV

\* C12: a reload_plugin(name) step for a discovered plugin that is not
\* loaded returns failure, leaves the plugin unloaded and calls none of its
\* hooks.
C12_ReloadOfUnloadedFails ==
    [][(last'.op = "reload_plugin" /\ last'.name \in PluginNames \ loaded_plugins) =>
          /\ ~last'.ok
          /\ last'.name \notin loaded_plugins'
          /\ init_calls'[last'.name] = init_calls[last'.name]
          /\ delete_calls'[last'.name] = delete_calls[last'.name]]_vars

\* C14: a step update_template(T) taken when T is already the current
\* template calls no init and no delete hook and leaves the loaded plugins,
\* the active variables and the current template as they are.
C14_SameTemplateIsNoOp ==
    [][(last'.op = "update_template" /\ last'.same) =>
          /\ loaded_plugins' = loaded_plugins
          /\ init_calls' = init_calls
          /\ delete_calls' = delete_calls
          /\ active_variables' = active_variables
          /\ current_template' = current_template]_vars

\* C14 witness: update_template was called with the current template while
\* an earlier template change had unloaded a plugin.
C14_Witness ==
    /\ last.op = "update_template"
    /\ last.same
    /\ loaded_plugins # PluginNames

\* C15: when execute was called with a template that differs from the
\* current one, the plugins loaded for the analysis (those whose execute
\* functions ran) are exactly the plugins that declare a variable referenced
\* by that template.
C15_ExecuteLoadsExactlyNeeded ==
    (last.op = "execute" /\ last.tpl # current_template) =>
        /\ loaded_plugins = PluginsReferencedBy(last.tpl)
        /\ (~last.raised => DOMAIN last.beh = PluginsReferencedBy(last.tpl))

\* Reloading while plugin files change: templates are set, plugins are
\* reloaded and plugin files are edited.
\* update_template(template) with plugins whose delete or init hooks raise.
call_update_template_hooks_raise ==
    /\ \E tpl \in RegTemplates, bad \in SUBSET PluginNames, bad_init \in SUBSET PluginNames :
          update_template(tpl, bad, bad_init)
    /\ UNCHANGED <<copyVars, tplVars, matchVars>>

\* Allocator.__init__ with plugins whose init hooks raise.
InitHooks ==
    /\ CopyIdle
    /\ TemplateIdle
    /\ MatchIdle
    /\ \E bad_init \in SUBSET PluginNames :
          /\ RegIs(ConstructedWith(bad_init))
          /\ last = [NoCall EXCEPT !.op = "construct",
                                   !.init_raised = ConstructedWith(bad_init).init_failed]
    /\ active_variables = {}
    /\ current_template = <<>>

\* Plugins whose hooks raise: templates are set and plugins are reloaded.
NextHooks ==
    \/ call_update_template_hooks_raise
    \/ call_reload_plugin

SpecHooks == InitHooks /\ [][NextHooks]_vars

NextReload ==
    \/ call_update_template
    \/ call_reload_plugin
    \/ edit_plugin_file

SpecReload == InitRegistry /\ [][NextReload]_vars

C16_FailedInitStaysLoaded ==
    /\ [](last.init_raised \subseteq loaded_plugins)
    /\ [][\A plugin_name \in loaded_plugins :
            /\ plugin_name \notin loaded_plugins' =>
                  delete_calls'[plugin_name] = delete_calls[plugin_name] + 1
            /\ (last'.op = "reload_plugin" /\ last'.name = plugin_name /\ last' # last) =>
                  (last'.log # <<>> /\ last'.log[1].hook = "delete")]_vars

\* C16 witness: update_template has loaded a plugin whose init hook raised.
C16_Witness ==
    /\ last.op = "update_template"
    /\ last.init_raised # {}
    /\ last.init_raised \subseteq loaded_plugins

\* ============================================================ batch_execute
\* str(e) of the FileNotFoundError analyze_file raises for a file: a fixed
\* text ("file does not exist: ", written here as one element) and the path.
FileNotFoundMessage(file) == <<"file does not exist: ">> \o file.path

\* batch_execute's handler of an exception of execute: the entry of the file
\* is f"ERROR: {filepath} - {str(e)}".
batch_skip(res, file) == res

batch_except(res, file) ==
    Append(res, <<"E","R","R","O","R",":"," ">> \o file.path \o <<" ","-"," ">>
                \o FileNotFoundMessage(file))

\* The loop of batch_execute over filepaths: the registry it leaves and the
\* list of results.
RECURSIVE batch_each(_, _, _, _, _, _, _)
batch_each(R, cur, filepaths, given, target_template, beh, res) ==
    IF filepaths = <<>> THEN [reg |-> R, results |-> res]
    ELSE LET file == Head(filepaths)
             c == execute_call(R, cur, file, given, target_template, beh)
         IN batch_each(c.reg, cur, Tail(filepaths), given, target_template, beh,
                       IF c.raised THEN batch_except(res, file) ELSE Append(res, c.path))

\* batch_execute(filepaths, target_template)
batch_execute(filepaths, given, target_template, beh) ==
    \E b \in {batch_each(Reg, current_template, filepaths, given, target_template, beh, <<>>)} :
       /\ SetReg(b.reg)
       /\ UNCHANGED <<active_variables, current_template>>
       /\ last' = [NoCall EXCEPT !.op = "batch_execute", !.files = filepaths,
                                 !.results = b.results,
                                 !.tpl = IF given THEN target_template ELSE current_template]

\* The lists of files handed to batch_execute.
FileLists == UNION {[1..n -> Files] : n \in 0..MaxBatch}

\* The plugins' behaviour during a batch: geo returns its value or raises.
BatchBehaviours == {beh \in Behaviours : beh[S_manual_grouping] = "ok" /\ beh[S_geo] # "none"}

call_batch_execute ==
    /\ \E filepaths \in FileLists, beh \in BatchBehaviours :
          \/ batch_execute(filepaths, FALSE, <<>>, beh)
          \/ \E tpl \in ExecTemplates : batch_execute(filepaths, TRUE, tpl, beh)
    /\ UNCHANGED <<copyVars, tplVars, matchVars>>

\* An Allocator whose template was set twice after construction.
InitBatch ==
    /\ CopyIdle
    /\ TemplateIdle
    /\ MatchIdle
    /\ \E tpl1 \in RegTemplates, tpl2 \in RegTemplates :
          /\ RegIs(update_template_registry(
                       update_template_registry(Constructed, <<>>, {}, tpl1, {}, {}),
                       tpl1, parse_template_variables(tpl1), tpl2, {}, {}))
          /\ current_template = tpl2
          /\ active_variables = parse_template_variables(tpl2)
    /\ last = NoCall

NextBatch == call_batch_execute

SpecBatch == InitBatch /\ [][NextBatch]_vars

\* ------------------------------------------------------------------ claims
\* The entry of a result list is an error marker.
IsErrorMarker(entry) == StartsWith(entry, <<"E","R","R","O","R",":"," ">>)

\* C11: batch_execute returns one entry per input file, in input order: the
\* entry of a file whose processing fails (the file does not exist) is the
\* error marker naming that file, at the file's own position, and the entry
\* of every other file, later ones included, is a path under the output
\* directory.
C11_BatchOneEntryPerFile ==
    last.op = "batch_execute" =>
        /\ Len(last.results) = Len(last.files)
        /\ \A i \in 1..Len(last.files) :
              IF last.files[i].exists
              THEN /\ ~IsErrorMarker(last.results[i])
                   /\ StartsWith(last.results[i], target_folder)
              ELSE /\ IsErrorMarker(last.results[i])
                   /\ last.results[i] =
                         <<"E","R","R","O","R",":"," ">> \o last.files[i].path
                         \o <<" ","-"," ">> \o FileNotFoundMessage(last.files[i])

\* C11 witness: the first file of a batch failed and the second was
\* processed.
C11_Witness ==
    /\ last.op = "batch_execute"
    /\ Len(last.files) = 2
    /\ ~last.files[1].exists
    /\ last.files[2].exists
    /\ IsErrorMarker(last.results[1])
    /\ StartsWith(last.results[2], target_folder)

\* ============================================================ main program
\* src/main.py: an Allocator is constructed and its template set; then, for
\* the selected file, execute yields the destination path and copy_initiator
\* copies the file there.  The file is the copy engine's source.
MainFile == [path |-> <<"/","s","/","r",".","p">>, exists |-> source.exists,
             size |-> Len(source.data)]

InitMain ==
    /\ TemplateIdle
    /\ MatchIdle
    /\ hash_check_enable \in ConfiguredAlgorithms
    /\ hash_func = InitHashFunc(hash_check_enable)
    /\ \E s \in 0..MaxSize, e \in BOOLEAN : source = [exists |-> e, data |-> SourceData(s)]
    /\ chunk_size \in 1..MaxChunk
    /\ max_workers \in 1..MaxWorkers
    /\ destinations = <<1>>
    /\ disk = [d \in 1..MaxDest |-> EmptyDest]
    /\ pc = "main"
    /\ di = 0
    /\ success = TRUE
    /\ source_hash = <<>>
    /\ num_chunks = 0
    /\ results = <<>>
    /\ wstate = <<>>
    /\ merge_i = 0
    /\ outcome = [k \in 1..MaxDest |-> "none"]
    /\ attempted = <<>>
    /\ ret = "none"
    /\ faults = 0
    /\ \E tpl \in ExecTemplates :
          /\ RegIs(update_template_registry(Constructed, <<>>, {}, tpl, {}, {}))
          /\ current_template = tpl
          /\ active_variables = parse_template_variables(tpl)
    /\ last = NoCall

\* destination_path = allo.execute(file): an exception of execute ends the
\* program; otherwise copy_initiator((destination_path,)) is called.
main_execute ==
    /\ pc = "main"
    /\ \E beh \in Behaviours : execute(MainFile, FALSE, <<>>, beh)
    /\ pc' = IF analyze_raises(MainFile) THEN "uncaught" ELSE "call"
    /\ UNCHANGED <<hash_check_enable, hash_func, source, chunk_size, max_workers,
                   destinations, disk, di, success, source_hash, num_chunks, results,
                   wstate, merge_i, outcome, attempted, ret, faults>>
    /\ UNCHANGED <<tplVars, matchVars>>

NextMain ==
    \/ main_execute
    \/ NextCopy

SpecMain == InitMain /\ [][NextMain]_vars

\* ------------------------------------------------------------------ claims
\* C10 as stated: neither execute nor copy_initiator lets an exception reach
\* its caller.
C10_NeverRaises ==
    /\ ~last.raised
    /\ pc # "raised"

\* C10: copy_initiator never lets an exception reach its caller, and execute
\* raises (FileNotFoundError) exactly when the source file does not exist:
\* for an existing file, plugin failures included, it returns a path.
C10_RaisesOnlyForMissingFile ==
    /\ pc # "raised"
    /\ last.op = "execute" => (last.raised <=> ~last.file_exists)
    /\ pc = "done" => ret \in {"true", "false"}

\* C10 witness: execute returned a path although a plugin raised, and
\* copy_initiator then met an exception and returned false.
C10_Witness ==
    /\ pc = "done"
    /\ ret = "false"
    /\ outcome[1] = "error"
    /\ last.op = "execute"
    /\ ~last.raised
    /\ \E plugin_name \in DOMAIN last.beh : last.beh[plugin_name] = "raise"


\* ============================================================ grouping plugin
\* manual_grouping of the two grouping plugins.  A strategy group is a group
\* name with its strategies; the strategies here are CONTAINS strategies,
\* each one its pattern.
StrategyGroup(group_name, strategies) == [group_name |-> group_name, strategies |-> strategies]

\* Strategy.matches for CONTAINS: self.pattern in filename
contains_matches(pattern, filename) == Contains(filename, pattern)

\* StrategyGroup.matches: every strategy matches, and there is one.
group_matches(group, filename) ==
    /\ group.strategies # <<>>
    /\ \A k \in 1..Len(group.strategies) : contains_matches(group.strategies[k], filename)

\* The rule of the directory_tools plugin: the first pattern found in the
\* filename ends the search.
rule_matches(group, filename) ==
    \E k \in 1..Len(group.strategies) : contains_matches(group.strategies[k], filename)

\* The lists that hold each element of a set once.
ListsOf(names) ==
    {l \in [1..Cardinality(names) -> names] : {l[k] : k \in 1..Len(l)} = names}

\* matched_groups after the loop over GLOBAL_STRATEGY_GROUPS.
matched_groups(groups, filename) ==
    {groups[k].group_name : k \in {j \in 1..Len(groups) : group_matches(groups[j], filename)}}

\* groups after the loop over GLOBAL_GROUPING_RULES.items()
RECURSIVE rule_groups(_, _)
rule_groups(groups, filename) ==
    IF groups = <<>> THEN <<>>
    ELSE (IF rule_matches(groups[1], filename) THEN <<groups[1].group_name>> ELSE <<>>)
         \o rule_groups(Tail(groups), filename)

GroupNames == {<<"A">>, <<"B">>}
StrategyLists == {<<>>, << <<"a">> >>, << <<"1">> >>, << <<"a">>, <<"1">> >>}
GroupConfigs ==
    UNION {[1..n -> {StrategyGroup(g, ss) : g \in GroupNames, ss \in StrategyLists}]
           : n \in 0..MaxGroups}
Directories == {<<>>, <<"a", "/">>}

InitGrouping ==
    /\ CopyIdle
    /\ TemplateIdle
    /\ RegistryIdle
    /\ MatcherIdle
    /\ g_groups \in GroupConfigs
    /\ g_filepath \in {d \o n : d \in Directories, n \in Filenames}
    /\ grouped = NotGrouped

\* manual_grouping(filepath) of pyside6_plugins: list(matched_groups), the
\* elements of a set of str in the order of the set's table, which depends
\* on the interpreter's hash seed.
call_manual_grouping ==
    /\ ~grouped.done
    /\ IF g_groups = <<>>
       THEN grouped' = [done |-> TRUE, impl |-> "strategy_groups", value |-> <<>>]
       ELSE \E value \in ListsOf(matched_groups(g_groups, os_path_basename(g_filepath))) :
               grouped' = [done |-> TRUE, impl |-> "strategy_groups", value |-> value]
    /\ UNCHANGED <<nonMatchVars, m_pattern, m_range_filter, strategy, m_constraints, m_filename,
                   matched, g_groups, g_filepath>>

\* manual_grouping(filepath) of directory_tools: GLOBAL_GROUPING_RULES is a
\* dict, so its group names are distinct.
call_manual_grouping_rules ==
    /\ ~grouped.done
    /\ \A i \in 1..Len(g_groups), j \in 1..Len(g_groups) :
          g_groups[i].group_name = g_groups[j].group_name => i = j
    /\ grouped' = [done |-> TRUE, impl |-> "grouping_rules",
                   value |-> rule_groups(g_groups, os_path_basename(g_filepath))]
    /\ UNCHANGED <<nonMatchVars, m_pattern, m_range_filter, strategy, m_constraints, m_filename,
                   matched, g_groups, g_filepath>>

NextGrouping ==
    \/ call_manual_grouping
    \/ call_manual_grouping_rules

SpecGrouping == InitGrouping /\ [][NextGrouping]_vars

\* The names of the groups that match, each once, in configuration order.
RECURSIVE MatchingInOrder(_, _, _, _)
MatchingInOrder(impl, groups, filename, seen) ==
    IF groups = <<>> THEN <<>>
    ELSE LET hit == IF impl = "strategy_groups" THEN group_matches(groups[1], filename)
                    ELSE rule_matches(groups[1], filename)
             name == groups[1].group_name
         IN IF hit /\ name \notin seen
            THEN <<name>> \o MatchingInOrder(impl, Tail(groups), filename, seen \cup {name})
            ELSE MatchingInOrder(impl, Tail(groups), filename, seen)

\* C21: the grouping result is the list of the names of the strategy groups
\* that matched, without duplicates and in the order in which the groups are
\* configured, so its first element is the first configured matching group.
C21_GroupsInConfiguredOrder ==
    grouped.done =>
        grouped.value = MatchingInOrder(grouped.impl, g_groups, os_path_basename(g_filepath), {})

====
